---- MODULE Spec2Model ----
(***************************************************************************)
(* The streaming pipeline supervisor of the audio bridge (src/server.py):  *)
(* the shared SystemState record, the external encoder (ffmpeg) process    *)
(* table, and the request handlers that start, stop and restart the        *)
(* encoder; with them the status broadcaster and the WebSocket handlers,   *)
(* the level meter, and the audio source resolver, each also as a          *)
(* specification of its own.                                               *)
(*                                                                         *)
(* The handlers are coroutines on one event loop: a handler runs without   *)
(* interruption from one await to the next.  Each action below is one such *)
(* segment of a handler; the synchronous functions it calls                *)
(* (start_ffmpeg_stream, stop_ffmpeg_stream, add_error, ...) are operators *)
(* from a world [state, os, calls] to a world, composed in call order.     *)
(***************************************************************************)
EXTENDS Integers, Sequences, FiniteSets, TLC

\* ------------------------------------------------------------------ bounds

\* The clock's horizon: every handler segment takes one unit of time, so
\* this is also the number of handler segments of a behaviour.
MaxTime == 4
\* The WebSockets that connect in a behaviour, and the broadcast ticks.
MaxSockets == 2
MaxTicks == 2
\* The lines of one pactl enumeration.
MaxLines == 2
\* How far beyond the two ends of the meter's scale, in dB, the levels read
\* from the encoder reach.
MaxOver == 5

\* ------------------------------------------------------- program constants

\* len(self.connection_history) > 50 ... [-50:]
MaxConnectionHistory == 50
\* len(self.error_log) > 100 ... [-100:]
MaxErrorLog == 100
\* config 'fallback' 'max_retries' (default 3)
max_retries == 3
\* config 'fallback' 'retry_delay' (default 5)
retry_delay == 5
\* await asyncio.sleep(1) between the stop and the first attempt of a restart
settle_delay == 1

\* ------------------------------------------------------------ absent values

\* Python None for a string-valued field (source names, device names).
None == "None"
\* state.ffmpeg_process = None; process handles are the pids 1, 2, ...
NoProcess == 0
\* state.stream_start_time = None; the clock starts at 1.
NoTime == 0
\* A log message: a format string and its one interpolated argument.
Msg(text, arg) == [text |-> text, arg |-> arg]
\* state.last_error = None
NoError == Msg("None", "")

\* The decimal rendering of a small number inside an f-string.
ToStr(n) == <<"0", "1", "2", "3", "4", "5", "6", "7", "8", "9">>[n + 1]

VARIABLES
    state,      \* the SystemState instance (the fields the pipeline uses)
    os,         \* the encoder processes ever launched: pid -> status, signals
    now,        \* time.time() / datetime.now(), in units of one segment
    restart,    \* POST /api/stream/restart in flight: pc, attempt, sleeps,
                \* and the outcome of each start it has made
    debug_restart, \* GET /api/debug/restart-stream in flight: pc
    set_source, \* GET /api/debug/set-source in flight: pc, source_name
    reconnect,  \* POST /api/bluetooth/reconnect in flight: pc
    serving,    \* FALSE once the lifespan's shutdown half has run
    last_op,    \* the handler segment that ran last and the calls it made
    appended,   \* SpecLog: every entry ever appended to the two logs
    tasks,      \* the background tasks the lifespan created, still running
    sockets,    \* each WebSocket: its handler, its connection, what it got
    broadcast,  \* periodic_update / broadcast_status: pc, loop variables
    monitor,    \* audio_monitor_loop: pc, and the stderr line it last read
    pulse,      \* SpecResolver: what the next start reads from its environment
    event_loop, \* the asyncio event loop: the blocking call its thread is
                \* inside, if any, and the calls handed to worker threads
    consumer,   \* a stream_generator in its loop: pc, the encoder it reads
    config      \* ConfigManager.config and the documents passed to it

vars == <<state, os, now, restart, debug_restart, set_source, reconnect,
          serving, last_op, appended, tasks, sockets, broadcast, monitor,
          pulse, event_loop, consumer, config>>

\* ------------------------------------------------------------ SystemState

\* SystemState.__init__
SystemState ==
    [ ffmpeg_process |-> NoProcess,
      is_streaming |-> FALSE,
      current_audio_source |-> None,
      stream_start_time |-> NoTime,
      connection_history |-> <<>>,
      error_log |-> <<>>,
      last_error |-> NoError,
      active_connections |-> <<>>,
      current_rms |-> 0,
      bt_connected |-> None,
      zconf |-> None,
      cast_browser |-> None ]

\* Python's seq[-n:]
LastN(seq, n) ==
    IF Len(seq) > n THEN SubSeq(seq, Len(seq) - n + 1, Len(seq)) ELSE seq

\* Mutation of add_connection_event: the slice keeps the first 50 entries,
\* [:50], so the newest entry is the one dropped.
add_connection_event_keeps_oldest(s, event_type, details, t) ==
    LET event == [timestamp |-> t, type |-> event_type, details |-> details]
        history == Append(s.connection_history, event)
    IN  [s EXCEPT !.connection_history =
            IF Len(history) > MaxConnectionHistory
            THEN SubSeq(history, 1, MaxConnectionHistory)
            ELSE history]

\* SystemState.add_connection_event
add_connection_event(s, event_type, details, t) ==
    LET event == [timestamp |-> t, type |-> event_type, details |-> details]
        history == Append(s.connection_history, event)
    IN  [s EXCEPT !.connection_history =
            IF Len(history) > MaxConnectionHistory
            THEN LastN(history, MaxConnectionHistory)
            ELSE history]

\* Mutation of add_error: the entry is inserted at the head of the log.
add_error_newest_first(s, error_type, message, t) ==
    LET error == [timestamp |-> t, type |-> error_type, message |-> message]
        log == <<error>> \o s.error_log
    IN  [s EXCEPT !.error_log =
            IF Len(log) > MaxErrorLog
            THEN LastN(log, MaxErrorLog)
            ELSE log,
                  !.last_error = message]

\* SystemState.add_error
add_error(s, error_type, message, t) ==
    LET error == [timestamp |-> t, type |-> error_type, message |-> message]
        log == Append(s.error_log, error)
    IN  [s EXCEPT !.error_log =
            IF Len(log) > MaxErrorLog
            THEN LastN(log, MaxErrorLog)
            ELSE log,
                  !.last_error = message]

\* ------------------------------------------------------ encoder processes

\* The operating system's view: how many encoder processes were ever
\* launched (a handle is the ordinal of its launch) and which of them are
\* launched and not yet exited, terminated or killed.
NoProcesses == [launched |-> 0, alive |-> {}]

\* The handle Popen returns.
NewPid(o) == o.launched + 1

\* subprocess.Popen(cmd, ...) succeeding: a new running process.
Popen(o) == [launched |-> NewPid(o), alive |-> o.alive \cup {NewPid(o)}]

\* ffmpeg_process.terminate(); wait(timeout=2); on TimeoutExpired kill():
\* whether it exits within the grace period or is killed after it, the
\* process is gone when the three calls have returned.
terminate_wait_kill(o, p) == [o EXCEPT !.alive = @ \ {p}]

\* --------------------------------------------------------------- the world

\* A call of one of the pipeline's functions made by a handler segment, and
\* the branch of the function it took.
Called(w, fn, branch) ==
    [w EXCEPT !.calls = Append(@, [fn |-> fn, branch |-> branch])]

\* An operation issued on the operating system by a handler segment.
Issued(w, op) == [w EXCEPT !.io = Append(@, op)]

\* The world a handler segment starts from.
World == [state |-> state, os |-> os, calls |-> <<>>, io |-> <<>>]

\* ------------------------------------------------------ AudioSourceResolver

\* One line of `pactl list sources short` / `pactl list sinks short`:
\* its whitespace-separated parts, and whether its lower-cased text
\* contains "bluez" and "a2dp".
Line(parts, bluez, a2dp) == [parts |-> parts, bluez |-> bluez, a2dp |-> a2dp]

\* Mutation of bt_sources_of: an A2DP source is appended like any other, so
\* the first Bluetooth source enumerated is the one used.
RECURSIVE bt_sources_of_in_order(_, _)
bt_sources_of_in_order(lines, bt_sources) ==
    IF lines = <<>> THEN bt_sources
    ELSE LET line == Head(lines)
             next == IF line.bluez /\ Len(line.parts) >= 2
                     THEN Append(bt_sources, line.parts[2])
                     ELSE bt_sources
         IN  bt_sources_of_in_order(Tail(lines), next)

\* The loop over result.stdout.splitlines() building bt_sources: an A2DP
\* source is inserted at the head, any other Bluetooth source appended.
RECURSIVE bt_sources_of(_, _)
bt_sources_of(lines, bt_sources) ==
    IF lines = <<>> THEN bt_sources
    ELSE LET line == Head(lines)
             next == IF line.bluez /\ Len(line.parts) >= 2
                     THEN IF line.a2dp
                          THEN <<line.parts[2]>> \o bt_sources
                          ELSE Append(bt_sources, line.parts[2])
                     ELSE bt_sources
         IN  bt_sources_of(Tail(lines), next)

\* Mutation of sink_monitor_of: the sink's own name is returned, without
\* the ".monitor" suffix.
RECURSIVE sink_monitor_of_bare(_)
sink_monitor_of_bare(lines) ==
    IF lines = <<>> THEN None
    ELSE LET line == Head(lines)
         IN  IF line.bluez /\ Len(line.parts) >= 2
             THEN line.parts[2]
             ELSE sink_monitor_of_bare(Tail(lines))

\* The loop over result_sinks.stdout.splitlines(): the first Bluetooth sink
\* names the monitor source.
RECURSIVE sink_monitor_of(_)
sink_monitor_of(lines) ==
    IF lines = <<>> THEN None
    ELSE LET line == Head(lines)
         IN  IF line.bluez /\ Len(line.parts) >= 2
             THEN line.parts[2] \o ".monitor"
             ELSE sink_monitor_of(Tail(lines))

\* get_bluetooth_audio_source: env.pactl_ok is FALSE when the first pactl
\* call raises (missing tool, timeout) and env.sinks_ok when the second
\* does, which the except clause turns into None.
get_bluetooth_audio_source(env) ==
    IF ~env.pactl_ok THEN None
    ELSE LET bt_sources == bt_sources_of(env.sources, <<>>)
         IN  IF bt_sources # <<>> THEN bt_sources[1]
             ELSE IF ~env.sinks_ok THEN None
             ELSE sink_monitor_of(env.sinks)

\* Mutation of get_default_audio_source: the output of the query is
\* returned as it is, empty or not.
get_default_audio_source_unchecked(env) == env.default_source

\* get_default_audio_source: the stripped output of pactl get-default-source,
\* or "default" when it is empty or the call raises.
get_default_audio_source(env) ==
    IF env.default_ok /\ env.default_source # "" THEN env.default_source
    ELSE "default"

\* ------------------------------------------------------- EncoderSupervisor

\* Mutation of launch_succeeded: state.last_error is not cleared.
launch_succeeded_keeps_error(w, t) ==
    LET w1 == Issued([w EXCEPT !.os = Popen(w.os)], "Popen")
        s1 == [w1.state EXCEPT !.ffmpeg_process = NewPid(w.os),
                               !.is_streaming = TRUE,
                               !.stream_start_time = t]
    IN  [w1 EXCEPT !.state = add_connection_event(s1, "stream",
                                Msg("Audio stream started", "192k"), t)]

\* The try block of start_ffmpeg_stream when Popen returns: the handle is
\* kept, the stream marked started, the last error cleared.
launch_succeeded(w, t) ==
    LET w1 == Issued([w EXCEPT !.os = Popen(w.os)], "Popen")
        s1 == [w1.state EXCEPT !.ffmpeg_process = NewPid(w.os),
                               !.is_streaming = TRUE,
                               !.stream_start_time = t,
                               !.last_error = NoError]
    IN  [w1 EXCEPT !.state = add_connection_event(s1, "stream",
                                Msg("Audio stream started", "192k"), t)]

\* Mutation of launch_failed: the failure is written to the logger only,
\* not to the error log.
launch_failed_unrecorded(w, t) ==
    LET w1 == Issued(w, "Popen_raised")
    IN  [w1 EXCEPT !.state = [@ EXCEPT !.ffmpeg_process = NoProcess,
                                       !.is_streaming = FALSE,
                                       !.stream_start_time = NoTime]]

\* The except block of start_ffmpeg_stream when Popen raises.
launch_failed(w, t) ==
    LET w1 == Issued(w, "Popen_raised")
        s1 == add_error(w1.state, "stream",
                        Msg("Failed to start FFmpeg: ", "OSError"), t)
    IN  [w1 EXCEPT !.state = [s1 EXCEPT !.ffmpeg_process = NoProcess,
                                        !.is_streaming = FALSE,
                                        !.stream_start_time = NoTime]]

\* Mutation of launch_ffmpeg: current_audio_source is assigned inside the
\* try block, after Popen has returned.
launch_ffmpeg_source_on_success(w, input_source, env, t) ==
    IF env.popen_ok
    THEN Called(launch_succeeded(
                  [w EXCEPT !.state.current_audio_source = input_source], t),
                "start_ffmpeg_stream", "launched")
    ELSE Called(launch_failed(w, t), "start_ffmpeg_stream", "launch_failed")

\* start_ffmpeg_stream from "state.current_audio_source = input_source" on.
launch_ffmpeg(w, input_source, env, t) ==
    LET w1 == [w EXCEPT !.state.current_audio_source = input_source]
    IN  IF env.popen_ok
        THEN Called(launch_succeeded(w1, t), "start_ffmpeg_stream", "launched")
        ELSE Called(launch_failed(w1, t), "start_ffmpeg_stream", "launch_failed")

\* Mutation of resolve_and_launch: the fallback switch is not read and the
\* default source is used whenever no Bluetooth source is found.
resolve_and_launch_always_falls_back(w, env, t) ==
    IF env.preferred_source \notin {None, ""}
    THEN launch_ffmpeg(w, env.preferred_source, env, t)
    ELSE LET bt_source == get_bluetooth_audio_source(env)
         IN  IF bt_source # None
             THEN launch_ffmpeg(
                    [w EXCEPT !.state = add_connection_event(@, "audio_source",
                        Msg("Connected to Bluetooth source: ", bt_source), t)],
                    bt_source, env, t)
             ELSE launch_ffmpeg(
                    [w EXCEPT !.state = add_error(@, "bluetooth",
                        Msg("No Bluetooth source found, using default audio source", ""), t)],
                    get_default_audio_source(env), env, t)

\* start_ffmpeg_stream past its "already running" check: the source is
\* chosen and the encoder launched.
resolve_and_launch(w, env, t) ==
    IF env.preferred_source \notin {None, ""}
    THEN launch_ffmpeg(w, env.preferred_source, env, t)
    ELSE LET bt_source == get_bluetooth_audio_source(env)
         IN  IF bt_source # None
             THEN launch_ffmpeg(
                    [w EXCEPT !.state = add_connection_event(@, "audio_source",
                        Msg("Connected to Bluetooth source: ", bt_source), t)],
                    bt_source, env, t)
             ELSE IF env.use_default_audio_source
             THEN launch_ffmpeg(
                    [w EXCEPT !.state = add_error(@, "bluetooth",
                        Msg("No Bluetooth source found, using default audio source", ""), t)],
                    get_default_audio_source(env), env, t)
             ELSE Called(
                    [w EXCEPT !.state = add_error(@, "bluetooth",
                        Msg("No Bluetooth source found and fallback disabled", ""), t)],
                    "start_ffmpeg_stream", "no_source")

\* Mutation of start_ffmpeg_stream: the "already running" check is missing.
start_ffmpeg_stream_unguarded(w, env, t) == resolve_and_launch(w, env, t)

\* start_ffmpeg_stream
start_ffmpeg_stream(w, env, t) ==
    IF w.state.ffmpeg_process # NoProcess
    THEN Called(w, "start_ffmpeg_stream", "already_running")
    ELSE resolve_and_launch(w, env, t)

\* Mutation of stop_running: the handle is cleared inside the try block, so
\* a TimeoutExpired skips it.
stop_running_keeps_killed(w, exits_in_grace, t) ==
    LET p == w.state.ffmpeg_process
        w1 == Issued(w, "terminate")
        killed == p \in w.os.alive /\ ~exits_in_grace
        w2 == IF killed THEN Issued(Issued(w1, "wait_timeout"), "kill")
              ELSE Issued(w1, "wait_exited")
    IN  [w2 EXCEPT !.os = terminate_wait_kill(w.os, p),
                   !.state = add_connection_event(
                                IF killed THEN @
                                ELSE [@ EXCEPT !.ffmpeg_process = NoProcess],
                                "stream", Msg("Audio stream stopped", ""), t)]

\* Mutation of stop_running: kill() is called after the wait whether or not
\* it timed out.
stop_running_always_kills(w, exits_in_grace, t) ==
    LET p == w.state.ffmpeg_process
        w1 == Issued(w, "terminate")
        w2 == IF p \in w.os.alive /\ ~exits_in_grace
              THEN Issued(w1, "wait_timeout") ELSE Issued(w1, "wait_exited")
    IN  [Issued(w2, "kill")
            EXCEPT !.os = terminate_wait_kill(w.os, p),
                   !.state = add_connection_event(
                                [@ EXCEPT !.ffmpeg_process = NoProcess],
                                "stream", Msg("Audio stream stopped", ""), t)]

\* The body of "if state.ffmpeg_process:" in stop_ffmpeg_stream: terminate,
\* wait(timeout=2), kill on TimeoutExpired, then the handle is cleared and
\* the stop recorded.  wait returns at once for a process that has exited,
\* returns within the 2 seconds for one that exits in the grace period, and
\* raises TimeoutExpired for one that does not.
stop_running(w, exits_in_grace, t) ==
    LET p == w.state.ffmpeg_process
        w1 == Issued(w, "terminate")
        w2 == IF p \in w.os.alive /\ ~exits_in_grace
              THEN Issued(Issued(w1, "wait_timeout"), "kill")
              ELSE Issued(w1, "wait_exited")
    IN  [w2 EXCEPT !.os = terminate_wait_kill(w.os, p),
                   !.state = add_connection_event(
                                [@ EXCEPT !.ffmpeg_process = NoProcess],
                                "stream", Msg("Audio stream stopped", ""), t)]

\* Mutation of stop_ffmpeg_stream: the stop is recorded outside the
\* "if state.ffmpeg_process:" block, also when nothing was running.
stop_ffmpeg_stream_always_records(w, exits_in_grace, t) ==
    LET w1 == IF w.state.ffmpeg_process # NoProcess
              THEN Called(stop_running(w, exits_in_grace, t),
                          "stop_ffmpeg_stream", "stopped")
              ELSE Called([w EXCEPT !.state = add_connection_event(@,
                              "stream", Msg("Audio stream stopped", ""), t)],
                          "stop_ffmpeg_stream", "not_running")
    IN  [w1 EXCEPT !.state = [@ EXCEPT !.is_streaming = FALSE,
                                       !.stream_start_time = NoTime]]

\* Mutation of stop_ffmpeg_stream: stream_start_time is not reset.
stop_ffmpeg_stream_keeps_start_time(w, exits_in_grace, t) ==
    LET w1 == IF w.state.ffmpeg_process # NoProcess
              THEN Called(stop_running(w, exits_in_grace, t),
                          "stop_ffmpeg_stream", "stopped")
              ELSE Called(w, "stop_ffmpeg_stream", "not_running")
    IN  [w1 EXCEPT !.state = [@ EXCEPT !.is_streaming = FALSE]]

\* stop_ffmpeg_stream
stop_ffmpeg_stream(w, exits_in_grace, t) ==
    LET w1 == IF w.state.ffmpeg_process # NoProcess
              THEN Called(stop_running(w, exits_in_grace, t),
                          "stop_ffmpeg_stream", "stopped")
              ELSE Called(w, "stop_ffmpeg_stream", "not_running")
    IN  [w1 EXCEPT !.state = [@ EXCEPT !.is_streaming = FALSE,
                                       !.stream_start_time = NoTime]]

\* ------------------------------------------------- inputs of the handlers

SrcBuiltin == <<Line(<<"0", "alsa_input.pci">>, FALSE, FALSE)>>
SrcBluetooth ==
    <<Line(<<"0", "alsa_input.pci">>, FALSE, FALSE),
      Line(<<"1", "bluez_input.hsp">>, TRUE, FALSE),
      Line(<<"2", "bluez_input.a2dp">>, TRUE, TRUE)>>
SinkBuiltin == <<Line(<<"0", "alsa_output.pci">>, FALSE, FALSE)>>
SinkBluetooth ==
    <<Line(<<"0", "alsa_output.pci">>, FALSE, FALSE),
      Line(<<"1", "bluez_output.1">>, TRUE, FALSE)>>

\* The record of what one call of start_ffmpeg_stream reads from its
\* environment: the configuration (bluetooth.preferred_source,
\* fallback.use_default_audio_source), the two pactl enumerations and whether
\* they ran, the default-source query, and whether Popen succeeds.
Env(preferred, pactl_ok, sources, sinks, fallback, default_ok, default, ok) ==
    [ preferred_source |-> preferred,
      pactl_ok |-> pactl_ok,
      sources |-> sources,
      sinks |-> sinks,
      use_default_audio_source |-> fallback,
      default_ok |-> default_ok,
      default_source |-> default,
      popen_ok |-> ok,
      sinks_ok |-> pactl_ok ]

\* The environments of the pipeline's behaviours, one per path through the
\* source selection: a preferred source, a Bluetooth input, the fallback to
\* the default input, and no usable source; each with a launch that
\* succeeds and one that fails.
StartEnvs ==
    { Env("preferred_src", TRUE, SrcBuiltin, SinkBuiltin, TRUE, TRUE, "", ok)
        : ok \in BOOLEAN }
    \cup { Env(None, TRUE, SrcBluetooth, SinkBuiltin, TRUE, TRUE, "", ok)
        : ok \in BOOLEAN }
    \cup { Env(None, TRUE, SrcBuiltin, SinkBuiltin, TRUE, FALSE, "", ok)
        : ok \in BOOLEAN }
    \cup { Env(None, TRUE, SrcBuiltin, SinkBuiltin, FALSE, TRUE, "", TRUE) }

\* The encoder either exits within the grace period of a stop or does not.
Graces == BOOLEAN
\* Source names a client may pass to /api/debug/set-source.
SourceNames == {"manual_src"}
\* What get_connected_bluetooth_device may report.
BtDevices == {None, "Phone"}

\* ---------------------------------------------------------- ConfigManager

\* A configuration value: a dict, or a leaf (number, string, null).
Leaf(value) == [dict |-> FALSE, value |-> value, items |-> <<>>]
Dict(items) == [dict |-> TRUE, value |-> None, items |-> items]

\* isinstance(value, dict)
isinstance_dict(value) == value.dict

\* DEFAULT_CONFIG, two of its sections with one and two of their keys.
DEFAULT_CONFIG ==
    Dict([section \in {"server", "fallback"} |->
            IF section = "server"
            THEN Dict([key \in {"port"} |-> Leaf("8000")])
            ELSE Dict([key \in {"max_retries", "retry_delay"} |->
                         IF key = "max_retries" THEN Leaf("3") ELSE Leaf("5")])])

\* No document: the arguments of _merge_configs before its first call.
NoDocument == Leaf(None)

\* ConfigManager.__init__ when config.json holds the defaults.
ConfigIdle ==
    [config |-> DEFAULT_CONFIG, base |-> NoDocument, updates |-> NoDocument,
     merged |-> NoDocument]

\* The dicts with keys among `keys` and values among `values`.
Dicts(keys, values) ==
    {Dict(items) : items \in UNION {[d -> values] : d \in SUBSET keys}}

\* What json.load may return from config.json, or what update is passed: a
\* dict whose sections are dicts of leaves, or leaves themselves.
Sections == Dicts({"port", "max_retries"}, {Leaf("9000")})
Documents == Dicts({"server", "fallback"}, Sections \cup {Leaf("9000")})

\* config.json as load_config finds it: a document, text that is not
\* JSON, or no file.
ConfigFiles == Documents \cup {Leaf("invalid"), Leaf("missing")}

\* ConfigManager._merge_configs: a copy of base in which every key of
\* updates is set, to the merge of the two values when both are dicts and
\* to the value of updates otherwise.
RECURSIVE _merge_configs(_, _)
_merge_configs(base, updates) ==
    Dict([key \in DOMAIN base.items \cup DOMAIN updates.items |->
            IF key \notin DOMAIN updates.items
            THEN base.items[key]
            ELSE IF /\ key \in DOMAIN base.items
                    /\ isinstance_dict(base.items[key])
                    /\ isinstance_dict(updates.items[key])
            THEN _merge_configs(base.items[key], updates.items[key])
            ELSE updates.items[key]])

\* No consumer of /live.mp3 yet.
NoConsumer == [pc |-> "none", stdout |-> NoProcess]

\* ---------------------------------------------------------------- handlers

\* A handler's return value: its "status" and, for a restart, "attempts".
Ret(status, attempts) == [status |-> status, attempts |-> attempts]

\* The end of a handler segment: its world becomes the program's.
Commit(w, name, ret) ==
    /\ now <= MaxTime
    /\ now' = now + 1
    /\ state' = w.state
    /\ os' = w.os
    /\ last_op' = [name |-> name, calls |-> w.calls, io |-> w.io, ret |-> ret]
    /\ appended' = appended
    /\ event_loop' = [event_loop EXCEPT !.running = "tasks"]
    /\ UNCHANGED <<sockets, broadcast, monitor, pulse, consumer, config>>

\* The event loop with its thread free to run the tasks that are ready and
\* no call handed to a worker thread.
LoopIdle == [running |-> "tasks", to_thread |-> {}]

\* The event loop's thread is not inside a blocking call: a task that is
\* ready can be run.
LoopFree == event_loop.running = "tasks"

\* A new request is accepted and its handler run.
Accept == serving /\ LoopFree

RestartIdle == [pc |-> "idle", attempt |-> 0, sleeps |-> <<>>, starts |-> <<>>]
SetSourceIdle == [pc |-> "idle", source_name |-> None]

\* lifespan before the yield: the zeroconf instance and the cast browser are
\* created and discovery started.
lifespan_startup(s) ==
    [s EXCEPT !.zconf = "open", !.cast_browser = "discovering"]

\* The three asyncio.create_task calls of the lifespan.
BackgroundTasks ==
    {"audio_monitor_loop", "bluetooth_monitor_loop", "periodic_update"}

\* The WebSockets: before its client connects a socket has no handler.
Sockets == 1..MaxSockets
NoSocket == 0
NewSocket == [handler |-> "none", link |-> "up", received |-> <<>>, failed |-> 0]

\* The local `status` of broadcast_status before the first call has built
\* one.
NoStatus ==
    [ streaming |-> FALSE, rms |-> 0, audio_source |-> None,
      stream_duration |-> NoTime, last_error |-> NoError,
      connection_history |-> <<>> ]

\* periodic_update asleep, before its first broadcast_status.
BroadcastIdle ==
    [pc |-> "sleep", tick |-> 0, index |-> 0, connection |-> NoSocket,
     to_remove |-> <<>>, stayed |-> {}, status |-> NoStatus]

\* Mutation of no_stream: the meter keeps the last level it showed.
no_stream_keeps_level(s) == s

\* The else branch of audio_monitor_loop, taken when there is no encoder:
\* state.current_rms = 0.
no_stream(s) == [s EXCEPT !.current_rms = 0]

\* audio_monitor_loop at the top of its loop, no line read yet.
MonitorIdle == [pc |-> "loop", line |-> [kind |-> "none", level |-> 0]]

\* An environment in which nothing is enumerated.
NoPulse ==
    [ preferred_source |-> None, pactl_ok |-> TRUE, sources |-> <<>>,
      sinks |-> <<>>, use_default_audio_source |-> TRUE, default_ok |-> TRUE,
      default_source |-> "", popen_ok |-> TRUE, sinks_ok |-> TRUE ]

\* The variables the pipeline's handlers leave alone, as the server starts.
InitRest ==
    /\ tasks = BackgroundTasks
    /\ sockets = [ws \in Sockets |-> NewSocket]
    /\ broadcast = BroadcastIdle
    /\ monitor = MonitorIdle
    /\ pulse = NoPulse
    /\ event_loop = LoopIdle
    /\ consumer = NoConsumer
    /\ config = ConfigIdle

Init ==
    /\ state = lifespan_startup(SystemState)
    /\ os = NoProcesses
    /\ now = 1
    /\ restart = RestartIdle
    /\ debug_restart = "idle"
    /\ set_source = SetSourceIdle
    /\ reconnect = "idle"
    /\ serving = TRUE
    /\ last_op = [name |-> "init", calls |-> <<>>, io |-> <<>>, ret |-> Ret("", 0)]
    /\ appended = [conn |-> <<>>, err |-> <<>>]
    /\ InitRest

\* POST /api/stream/start
api_start_stream ==
    /\ Accept
    /\ \E env \in StartEnvs :
         IF state.is_streaming
         THEN Commit(World, "api_start_stream", Ret("already_running", 0))
         ELSE LET w == start_ffmpeg_stream(World, env, now)
              IN  Commit(w, "api_start_stream",
                         Ret(IF w.state.is_streaming THEN "success" ELSE "error", 0))
    /\ UNCHANGED <<restart, debug_restart, set_source, reconnect, serving, tasks>>

\* POST /api/stream/stop
api_stop_stream ==
    /\ Accept
    /\ \E g \in Graces :
         Commit(stop_ffmpeg_stream(World, g, now), "api_stop_stream",
                Ret("success", 0))
    /\ UNCHANGED <<restart, debug_restart, set_source, reconnect, serving, tasks>>

\* POST /api/cast/stop: the cast is quit and the stream stopped with it.
stop_cast ==
    /\ Accept
    /\ \E g \in Graces :
         Commit(stop_ffmpeg_stream(World, g, now), "stop_cast",
                Ret("stopped", 0))
    /\ UNCHANGED <<restart, debug_restart, set_source, reconnect, serving, tasks>>

\* GET /live.mp3: stream_generator starts the encoder before its read loop.
stream_generator ==
    /\ Accept
    /\ \E env \in StartEnvs :
         Commit(start_ffmpeg_stream(World, env, now), "stream_generator",
                Ret("streaming", 0))
    /\ UNCHANGED <<restart, debug_restart, set_source, reconnect, serving, tasks>>

\* POST /api/stream/restart up to "await asyncio.sleep(1)".
api_restart_stream ==
    /\ Accept
    /\ restart.pc = "idle"
    /\ \E g \in Graces :
         Commit(stop_ffmpeg_stream(World, g, now), "api_restart_stream",
                Ret("pending", 0))
    /\ restart' = [pc |-> "settle", attempt |-> 0, sleeps |-> <<settle_delay>>,
                   starts |-> <<>>]
    /\ UNCHANGED <<debug_restart, set_source, reconnect, serving, tasks>>

\* Mutation of wait_time: the delay is not doubled from one attempt to the
\* next.
wait_time_constant(attempt) == retry_delay

\* retry_delay * (2 ** attempt)
RECURSIVE wait_time(_)
wait_time(attempt) ==
    IF attempt = 0 THEN retry_delay ELSE 2 * wait_time(attempt - 1)

\* What one iteration of the retry loop leaves: the world, the handler's
\* return value if it returns, and the sleep it starts if it does not.
Iteration(w, ret, sleep) == [world |-> w, ret |-> ret, sleep |-> sleep]

\* Mutation of restart_iteration: the exhausted restart returns its error
\* without recording it.
restart_iteration_unrecorded(w, attempt, env, t) ==
    LET w1 == start_ffmpeg_stream(w, env, t)
    IN  IF w1.state.is_streaming
        THEN Iteration([w1 EXCEPT !.state = add_connection_event(@, "stream",
                           Msg("Stream restarted successfully (attempt ",
                               ToStr(attempt + 1)), t)],
                       Ret("success", attempt + 1), <<>>)
        ELSE IF attempt < max_retries - 1
        THEN Iteration(w1, Ret("pending", 0), <<wait_time(attempt)>>)
        ELSE Iteration(w1, Ret("error", 0), <<>>)

\* Mutation of restart_iteration: "attempts" reports the loop index, not
\* the number of attempts made.
restart_iteration_reports_index(w, attempt, env, t) ==
    LET w1 == start_ffmpeg_stream(w, env, t)
    IN  IF w1.state.is_streaming
        THEN Iteration([w1 EXCEPT !.state = add_connection_event(@, "stream",
                           Msg("Stream restarted successfully (attempt ",
                               ToStr(attempt + 1)), t)],
                       Ret("success", attempt), <<>>)
        ELSE IF attempt < max_retries - 1
        THEN Iteration(w1, Ret("pending", 0), <<wait_time(attempt)>>)
        ELSE Iteration([w1 EXCEPT !.state = add_error(@, "stream",
                           Msg("Failed to restart stream after ",
                               ToStr(max_retries)), t)],
                       Ret("error", 0), <<>>)

\* The body of "for attempt in range(max_retries)" and, after the last
\* iteration, the code that follows the loop: start_ffmpeg_stream; return
\* success if the stream is up; else sleep wait_time unless this was the
\* last attempt; after the last attempt record the failure and return it.
restart_iteration(w, attempt, env, t) ==
    LET w1 == start_ffmpeg_stream(w, env, t)
    IN  IF w1.state.is_streaming
        THEN Iteration([w1 EXCEPT !.state = add_connection_event(@, "stream",
                           Msg("Stream restarted successfully (attempt ",
                               ToStr(attempt + 1)), t)],
                       Ret("success", attempt + 1), <<>>)
        ELSE IF attempt < max_retries - 1
        THEN Iteration(w1, Ret("pending", 0), <<wait_time(attempt)>>)
        ELSE Iteration([w1 EXCEPT !.state = add_error(@, "stream",
                           Msg("Failed to restart stream after ",
                               ToStr(max_retries)), t)],
                       Ret("error", 0), <<>>)

\* One iteration of "for attempt in range(max_retries)", entered after the
\* settle sleep or after a backoff sleep.
api_restart_stream_attempt ==
    /\ LoopFree
    /\ restart.pc \in {"settle", "backoff"}
    /\ \E env \in StartEnvs :
         LET it == restart_iteration(World, restart.attempt, env, now)
         IN  /\ Commit(it.world, "api_restart_stream_attempt", it.ret)
             /\ restart' =
                  IF it.sleep = <<>> THEN RestartIdle
                  ELSE [pc |-> "backoff", attempt |-> restart.attempt + 1,
                        sleeps |-> restart.sleeps \o it.sleep,
                        starts |-> Append(restart.starts,
                                          it.world.calls[1].branch)]
    /\ UNCHANGED <<debug_restart, set_source, reconnect, serving, tasks>>

\* GET /api/debug/restart-stream up to "await asyncio.sleep(1)".
debug_restart_stream ==
    /\ Accept
    /\ debug_restart = "idle"
    /\ \E g \in Graces :
         Commit(stop_ffmpeg_stream(World, g, now), "debug_restart_stream",
                Ret("pending", 0))
    /\ debug_restart' = "sleep"
    /\ UNCHANGED <<restart, set_source, reconnect, serving, tasks>>

\* GET /api/debug/restart-stream after the sleep.
debug_restart_stream_start ==
    /\ LoopFree
    /\ debug_restart = "sleep"
    /\ \E env \in StartEnvs :
         Commit(start_ffmpeg_stream(World, env, now),
                "debug_restart_stream_start", Ret("restarted", 0))
    /\ debug_restart' = "idle"
    /\ UNCHANGED <<restart, set_source, reconnect, serving, tasks>>

\* GET /api/debug/set-source up to "await asyncio.sleep(0.5)".
api_set_source ==
    /\ Accept
    /\ set_source.pc = "idle"
    /\ \E g \in Graces, source_name \in SourceNames :
         /\ Commit(stop_ffmpeg_stream(World, g, now), "api_set_source",
                   Ret("pending", 0))
         /\ set_source' = [pc |-> "sleep", source_name |-> source_name]
    /\ UNCHANGED <<restart, debug_restart, reconnect, serving, tasks>>

\* Mutation of set_source_launch: is_streaming is not set.
set_source_launch_unflagged(w, source_name, popen_ok) ==
    IF popen_ok
    THEN LET w1 == Issued([w EXCEPT !.os = Popen(w.os)], "Popen")
         IN  [w1 EXCEPT !.state = [@ EXCEPT
                            !.ffmpeg_process = NewPid(w.os),
                            !.current_audio_source = source_name]]
    ELSE Issued(w, "Popen_raised")

\* api_set_source after the sleep: Popen with the given source, assigned to
\* state.ffmpeg_process whatever it holds; a Popen that raises is caught and
\* changes nothing.
set_source_launch(w, source_name, popen_ok) ==
    IF popen_ok
    THEN LET w1 == Issued([w EXCEPT !.os = Popen(w.os)], "Popen")
         IN  [w1 EXCEPT !.state = [@ EXCEPT
                            !.ffmpeg_process = NewPid(w.os),
                            !.is_streaming = TRUE,
                            !.current_audio_source = source_name]]
    ELSE Issued(w, "Popen_raised")

\* GET /api/debug/set-source after the sleep.
api_set_source_launch ==
    /\ LoopFree
    /\ set_source.pc = "sleep"
    /\ \E popen_ok \in BOOLEAN :
         Commit(set_source_launch(World, set_source.source_name, popen_ok),
                "api_set_source_launch",
                Ret(IF popen_ok THEN "started" ELSE "error", 0))
    /\ set_source' = SetSourceIdle
    /\ UNCHANGED <<restart, debug_restart, reconnect, serving, tasks>>

\* POST /api/bluetooth/reconnect up to "await get_connected_bluetooth_device()".
api_bluetooth_reconnect ==
    /\ Accept
    /\ reconnect = "idle"
    /\ Commit([World EXCEPT !.state = add_connection_event(@, "bluetooth",
                   Msg("Manual reconnection attempt", ""), now)],
              "api_bluetooth_reconnect", Ret("pending", 0))
    /\ reconnect' = "query"
    /\ UNCHANGED <<restart, debug_restart, set_source, serving, tasks>>

\* POST /api/bluetooth/reconnect once the device query has answered.
api_bluetooth_reconnect_device ==
    /\ LoopFree
    /\ reconnect = "query"
    /\ \E bt_device \in BtDevices, g \in Graces :
         IF bt_device # None
         THEN /\ Commit(stop_ffmpeg_stream(World, g, now),
                        "api_bluetooth_reconnect_device", Ret("pending", 0))
              /\ reconnect' = "sleep"
         ELSE /\ Commit([World EXCEPT !.state = add_error(@, "bluetooth",
                            Msg("No Bluetooth device connected", ""), now)],
                        "api_bluetooth_reconnect_device", Ret("error", 0))
              /\ reconnect' = "idle"
    /\ UNCHANGED <<restart, debug_restart, set_source, serving, tasks>>

\* POST /api/bluetooth/reconnect after the sleep.
api_bluetooth_reconnect_start ==
    /\ LoopFree
    /\ reconnect = "sleep"
    /\ \E env \in StartEnvs :
         Commit(start_ffmpeg_stream(World, env, now),
                "api_bluetooth_reconnect_start", Ret("success", 0))
    /\ reconnect' = "idle"
    /\ UNCHANGED <<restart, debug_restart, set_source, serving, tasks>>

\* The two assignments of api_clear_errors.
clear_errors(s) == [s EXCEPT !.error_log = <<>>, !.last_error = NoError]

\* POST /api/errors/clear
api_clear_errors ==
    /\ Accept
    /\ Commit([World EXCEPT !.state = clear_errors(@)], "api_clear_errors",
              Ret("success", 0))
    /\ UNCHANGED <<restart, debug_restart, set_source, reconnect, serving, tasks>>

\* state.cast_browser.stop_discovery() and state.zconf.close(), each if
\* the object exists.
release_discovery(w) ==
    [w EXCEPT !.state = [@ EXCEPT
        !.cast_browser = IF @ # None THEN "stopped" ELSE @,
        !.zconf = IF @ # None THEN "closed" ELSE @]]

\* task.cancel(): task is the periodic_update task, the one whose handle the
\* lifespan kept.
cancel_task(running) == running \ {"periodic_update"}

\* lifespan after the yield: the server has drained its requests.
lifespan_shutdown ==
    /\ LoopFree
    /\ serving
    /\ restart.pc = "idle" /\ debug_restart = "idle"
    /\ set_source.pc = "idle" /\ reconnect = "idle"
    /\ \E g \in Graces :
         Commit(release_discovery(stop_ffmpeg_stream(World, g, now)),
                "lifespan_shutdown", Ret("", 0))
    /\ serving' = FALSE
    /\ tasks' = cancel_task(tasks)
    /\ UNCHANGED <<restart, debug_restart, set_source, reconnect>>

\* The encoder process exits by itself (device gone, input error).
ffmpeg_exit ==
    /\ \E p \in os.alive :
         os' = [os EXCEPT !.alive = @ \ {p}]
    /\ last_op' = [name |-> "ffmpeg_exit", calls |-> <<>>, io |-> <<>>,
                    ret |-> Ret("", 0)]
    /\ UNCHANGED <<state, now, restart, debug_restart, set_source, reconnect,
                   serving, appended, tasks, sockets, broadcast, monitor,
                   pulse, event_loop, consumer, config>>

Next ==
    \/ api_start_stream
    \/ api_stop_stream
    \/ stop_cast
    \/ stream_generator
    \/ api_restart_stream
    \/ api_restart_stream_attempt
    \/ debug_restart_stream
    \/ debug_restart_stream_start
    \/ api_set_source
    \/ api_set_source_launch
    \/ api_bluetooth_reconnect
    \/ api_bluetooth_reconnect_device
    \/ api_bluetooth_reconnect_start
    \/ api_clear_errors
    \/ lifespan_shutdown
    \/ ffmpeg_exit

Spec == Init /\ [][Next]_vars

\* ------------------------------------------------- the two logs on their own

\* Requests served before the observation starts: `c` configuration reloads,
\* each of which appended one connection event, then `e` pairing requests
\* with a malformed MAC address, each of which appended one error.  The
\* counts leave each log empty or one entry below its capacity.
PastReloads == {0, MaxConnectionHistory - 1}
PastPairings == {0, MaxErrorLog - 1}

\* The i-th of those connection events and of those errors; the clock reads
\* 1 when the observation starts, so they lie in the past.
PastEvent(i, c, e) ==
    [timestamp |-> i - c - e, type |-> "config",
     details |-> Msg("Configuration reloaded from file", "")]
PastError(i, e) ==
    [timestamp |-> i - e, type |-> "bluetooth",
     message |-> Msg("Invalid MAC address format", "")]

\* The SystemState those requests leave.
PastState(c, e) ==
    [lifespan_startup(SystemState) EXCEPT
       !.connection_history = [i \in 1..c |-> PastEvent(i, c, e)],
       !.error_log = [i \in 1..e |-> PastError(i, e)],
       !.last_error = IF e = 0 THEN NoError ELSE PastError(e, e).message]

\* The events the handlers record with one add_connection_event call
\* (api_reload_config, api_pair_bt) and the errors they record with one
\* add_error call (api_pair_bt, api_update_config).
ConnEvents ==
    { [type |-> "config", details |-> Msg("Configuration reloaded from file", "")],
      [type |-> "bluetooth", details |-> Msg("Attempting to pair with ", "AA:BB")] }
ErrorEvents ==
    { [type |-> "bluetooth", message |-> Msg("Invalid MAC address format", "")],
      [type |-> "config", message |-> Msg("Failed to update configuration", "")] }

InitLog ==
    /\ \E c \in PastReloads, e \in PastPairings :
         /\ state = PastState(c, e)
         /\ appended = [conn |-> state.connection_history,
                        err |-> state.error_log]
    /\ os = NoProcesses
    /\ now = 1
    /\ restart = RestartIdle
    /\ debug_restart = "idle"
    /\ set_source = SetSourceIdle
    /\ reconnect = "idle"
    /\ serving = TRUE
    /\ last_op = [name |-> "init", calls |-> <<>>, io |-> <<>>, ret |-> Ret("", 0)]
    /\ InitRest

\* A handler records a connection event.
record_connection_event ==
    /\ LoopFree
    /\ now <= MaxTime
    /\ \E ev \in ConnEvents :
         /\ state' = add_connection_event(state, ev.type, ev.details, now)
         /\ appended' = [appended EXCEPT !.conn =
                Append(@, [timestamp |-> now, type |-> ev.type,
                           details |-> ev.details])]
    /\ now' = now + 1
    /\ last_op' = [name |-> "record_connection_event", calls |-> <<>>,
                   io |-> <<>>, ret |-> Ret("", 0)]
    /\ UNCHANGED <<os, restart, debug_restart, set_source, reconnect, serving,
                   tasks, sockets, broadcast, monitor, pulse, event_loop,
                   consumer, config>>

\* A handler records an error.
record_error ==
    /\ LoopFree
    /\ now <= MaxTime
    /\ \E ev \in ErrorEvents :
         /\ state' = add_error(state, ev.type, ev.message, now)
         /\ appended' = [appended EXCEPT !.err =
                Append(@, [timestamp |-> now, type |-> ev.type,
                           message |-> ev.message])]
    /\ now' = now + 1
    /\ last_op' = [name |-> "record_error", calls |-> <<>>,
                   io |-> <<>>, ret |-> Ret("", 0)]
    /\ UNCHANGED <<os, restart, debug_restart, set_source, reconnect, serving,
                   tasks, sockets, broadcast, monitor, pulse, event_loop,
                   consumer, config>>

NextLog ==
    \/ record_connection_event
    \/ record_error

SpecLog == InitLog /\ [][NextLog]_vars

\* The two logs under the calls that append to them and the request that
\* clears the error log.
NextLogClear ==
    \/ record_connection_event
    \/ record_error
    \/ api_clear_errors

SpecLogClear == InitLog /\ [][NextLogClear]_vars

\* ------------------------------------------------------ StatusBroadcaster

\* The elements of a list.
Range(seq) == {seq[i] : i \in DOMAIN seq}

\* list.remove(x): the first occurrence of x is deleted.
RECURSIVE Remove(_, _)
Remove(seq, x) ==
    IF seq = <<>> THEN <<>>
    ELSE IF Head(seq) = x THEN Tail(seq)
    ELSE <<Head(seq)>> \o Remove(Tail(seq), x)

\* "for c in to_remove: if c in state.active_connections: remove(c)"
RECURSIVE prune(_, _)
prune(connections, to_remove) ==
    IF to_remove = <<>> THEN connections
    ELSE prune(IF Head(to_remove) \in Range(connections)
               THEN Remove(connections, Head(to_remove))
               ELSE connections,
               Tail(to_remove))

\* The status dict broadcast_status builds, at time t.
Status(s, t) ==
    [ streaming |-> s.is_streaming,
      rms |-> s.current_rms,
      audio_source |-> s.current_audio_source,
      stream_duration |->
          IF s.stream_start_time # NoTime /\ s.is_streaming
          THEN t - s.stream_start_time ELSE NoTime,
      last_error |-> s.last_error,
      connection_history |-> LastN(s.connection_history, 10) ]

\* A step of the broadcaster or of a WebSocket handler leaves the pipeline's
\* handlers, the clock and the processes alone.
BroadcastFrame ==
    UNCHANGED <<os, now, restart, debug_restart, set_source, reconnect,
                serving, appended, tasks, monitor, pulse, event_loop,
                consumer, config>>

\* websocket_endpoint up to its first "await websocket.receive_text()": the
\* connection is accepted and appended to state.active_connections.
websocket_endpoint ==
    /\ LoopFree
    /\ \E ws \in Sockets :
         /\ sockets[ws].handler = "none"
         /\ sockets' = [sockets EXCEPT ![ws].handler = "receiving"]
         /\ state' = [state EXCEPT !.active_connections = Append(@, ws)]
         /\ last_op' = [name |-> "websocket_endpoint", calls |-> <<>>,
                        io |-> <<>>, ret |-> Ret("", ws)]
    /\ UNCHANGED broadcast
    /\ BroadcastFrame

\* The client of a connected WebSocket goes away.
client_disconnect ==
    /\ \E ws \in Sockets :
         /\ sockets[ws].handler = "receiving"
         /\ sockets[ws].link = "up"
         /\ sockets' = [sockets EXCEPT ![ws].link = "down"]
         /\ last_op' = [name |-> "client_disconnect", calls |-> <<>>,
                        io |-> <<>>, ret |-> Ret("", ws)]
    /\ UNCHANGED <<state, broadcast>>
    /\ BroadcastFrame

\* websocket_endpoint's except clause: receive_text raised
\* WebSocketDisconnect and the handler removes its connection from the list.
websocket_disconnect ==
    /\ LoopFree
    /\ \E ws \in Sockets :
         /\ sockets[ws].handler = "receiving"
         /\ sockets[ws].link = "down"
         /\ sockets' = [sockets EXCEPT ![ws].handler = "done"]
         /\ state' = [state EXCEPT !.active_connections =
                IF ws \in Range(@) THEN Remove(@, ws) ELSE @]
         /\ broadcast' = [broadcast EXCEPT !.stayed = @ \ {ws}]
         /\ last_op' = [name |-> "websocket_disconnect", calls |-> <<>>,
                        io |-> <<>>, ret |-> Ret("", ws)]
    /\ BroadcastFrame

\* The for loop of broadcast_status asks its list iterator for the next
\* connection: the element at the iterator's index in the list as it is
\* now; when there is none the loop ends, the connections in to_remove are
\* removed and periodic_update sleeps.
broadcast_next(b, connections) ==
    IF b.index < Len(connections)
    THEN [ connections |-> connections,
           b |-> [b EXCEPT !.pc = "send",
                           !.connection = connections[b.index + 1],
                           !.index = @ + 1] ]
    ELSE [ connections |-> prune(connections, b.to_remove),
           b |-> [b EXCEPT !.pc = "sleep", !.connection = NoSocket] ]

\* Mutation of status_sent: the dict is built again for each send.
status_sent_rebuilt(b, s, t) == Status(s, t)

\* The argument of send_json: the dict `status` built before the loop.  Its
\* values are numbers, strings and a slice of the history, which later
\* writes to the state do not reach.
status_sent(b, s, t) == b.status

\* periodic_update wakes: broadcast_status builds the status and starts its
\* loop over state.active_connections, up to the first send_json.
periodic_update ==
    /\ LoopFree
    /\ "periodic_update" \in tasks
    /\ broadcast.pc = "sleep"
    /\ broadcast.tick < MaxTicks
    /\ LET b == [broadcast EXCEPT !.tick = @ + 1, !.index = 0,
                                  !.to_remove = <<>>,
                                  !.stayed = Range(state.active_connections),
                                  !.status = Status(state, now)]
           next == broadcast_next(b, state.active_connections)
       IN  /\ broadcast' = next.b
           /\ state' = [state EXCEPT !.active_connections = next.connections]
           /\ last_op' = [name |-> "periodic_update", calls |-> <<>>,
                          io |-> <<>>, ret |-> Ret("", 0)]
    /\ UNCHANGED sockets
    /\ BroadcastFrame

\* "await connection.send_json(status)" returns, or raises because the
\* connection is gone; then the loop goes on.
broadcast_status ==
    /\ LoopFree
    /\ broadcast.pc = "send"
    /\ LET c == broadcast.connection
           sent == sockets[c].link = "up"
           b == IF sent THEN broadcast
                ELSE [broadcast EXCEPT !.to_remove = Append(@, c)]
           next == broadcast_next(b, state.active_connections)
       IN  /\ sockets' =
                IF sent
                THEN [sockets EXCEPT ![c].received =
                         Append(@, [tick |-> broadcast.tick,
                                    status |-> status_sent(broadcast, state, now)])]
                ELSE [sockets EXCEPT ![c].failed = broadcast.tick]
           /\ broadcast' = next.b
           /\ state' = [state EXCEPT !.active_connections = next.connections]
           /\ last_op' = [name |-> "broadcast_status", calls |-> <<>>,
                          io |-> <<>>, ret |-> Ret(IF sent THEN "sent" ELSE "failed", c)]
    /\ BroadcastFrame

\* ------------------------------------------- the resolver on its own

\* The lines `pactl list sources short` may print: a built-in input, a
\* Bluetooth headset (HSP) input, two Bluetooth A2DP inputs, and a line too
\* short to name a source.
SourceLines ==
    { Line(<<"0", "alsa_input.pci">>, FALSE, FALSE),
      Line(<<"1", "bluez_input.hsp">>, TRUE, FALSE),
      Line(<<"2", "bluez_input.a2dp">>, TRUE, TRUE),
      Line(<<"3", "bluez_input.a2dp_2">>, TRUE, TRUE),
      Line(<<"bluez">>, TRUE, FALSE) }

\* The lines `pactl list sinks short` may print.
SinkLines ==
    { Line(<<"0", "alsa_output.pci">>, FALSE, FALSE),
      Line(<<"1", "sink0">>, TRUE, FALSE),
      Line(<<"2", "sink1">>, TRUE, FALSE) }

\* The enumerations of at most MaxLines lines, no line twice.
Enumerations(lines) ==
    UNION { { e \in [1..n -> lines] : \A i, j \in 1..n : e[i] = e[j] => i = j }
            : n \in 0..MaxLines }

\* What a start may find: the configured preference (unset, empty, set),
\* the two enumerations and whether each pactl call ran, the fallback
\* switch, and the default source; and, where no preference is set and the
\* fallback is enabled, a default-source query that raises and one that
\* prints nothing.
ResolverEnvs ==
    { [ preferred_source |-> pref, pactl_ok |-> ok[1], sinks_ok |-> ok[2],
        sources |-> srcs, sinks |-> snks,
        use_default_audio_source |-> fb, default_ok |-> TRUE,
        default_source |-> "alsa_input.pci", popen_ok |-> TRUE ]
      : pref \in {None, "", "preferred_src"},
        ok \in {<<TRUE, TRUE>>, <<TRUE, FALSE>>, <<FALSE, FALSE>>},
        srcs \in Enumerations(SourceLines), snks \in Enumerations(SinkLines),
        fb \in BOOLEAN }
    \cup
    { [ preferred_source |-> None, pactl_ok |-> ok[1], sinks_ok |-> ok[2],
        sources |-> srcs, sinks |-> snks,
        use_default_audio_source |-> TRUE, default_ok |-> d[1],
        default_source |-> d[2], popen_ok |-> TRUE ]
      : ok \in {<<TRUE, TRUE>>, <<TRUE, FALSE>>, <<FALSE, FALSE>>},
        srcs \in Enumerations(SourceLines), snks \in Enumerations(SinkLines),
        d \in {<<FALSE, "alsa_input.pci">>, <<TRUE, "">>} }

\* The pipeline streaming from the preferred source since time 1.
Streaming ==
    start_ffmpeg_stream(
        [state |-> lifespan_startup(SystemState), os |-> NoProcesses,
         calls |-> <<>>, io |-> <<>>],
        Env("preferred_src", TRUE, SrcBuiltin, SinkBuiltin, TRUE, TRUE, "", TRUE),
        1)

\* The pipeline after an earlier session: it streamed from the preferred
\* source from time 1 and was stopped at time 2; stop_ffmpeg_stream leaves
\* current_audio_source as it was.
StoppedAfterStreaming ==
    stop_ffmpeg_stream([Streaming EXCEPT !.calls = <<>>, !.io = <<>>], TRUE, 2)

InitResolver ==
    /\ \/ /\ state = lifespan_startup(SystemState)
          /\ os = NoProcesses
          /\ now = 1
       \/ /\ state = StoppedAfterStreaming.state
          /\ os = StoppedAfterStreaming.os
          /\ now = 3
    /\ restart = RestartIdle
    /\ debug_restart = "idle"
    /\ set_source = SetSourceIdle
    /\ reconnect = "idle"
    /\ serving = TRUE
    /\ last_op = [name |-> "init", calls |-> <<>>, io |-> <<>>, ret |-> Ret("", 0)]
    /\ appended = [conn |-> <<>>, err |-> <<>>]
    /\ tasks = BackgroundTasks
    /\ sockets = [ws \in Sockets |-> NewSocket]
    /\ broadcast = BroadcastIdle
    /\ monitor = MonitorIdle
    /\ pulse \in ResolverEnvs
    /\ event_loop = LoopIdle
    /\ consumer = NoConsumer
    /\ config = ConfigIdle

\* GET /live.mp3 in the environment `pulse`: stream_generator calls
\* start_ffmpeg_stream, which resolves the source.
stream_generator_pulse ==
    /\ Accept
    /\ LET w == start_ffmpeg_stream(World, pulse, now)
       IN  /\ now <= MaxTime
           /\ now' = now + 1
           /\ state' = w.state
           /\ os' = w.os
           /\ last_op' = [name |-> "stream_generator", calls |-> w.calls,
                          io |-> w.io, ret |-> Ret("streaming", 0)]
    /\ UNCHANGED <<restart, debug_restart, set_source, reconnect, serving,
                   appended, tasks, sockets, broadcast, monitor, pulse,
                   event_loop, consumer, config>>

NextResolver == stream_generator_pulse

SpecResolver == InitResolver /\ [][NextResolver]_vars

\* ------------------------------------------------------------ level meter

\* Python's max and min of two numbers.
py_max(a, b) == IF a >= b THEN a ELSE b
py_min(a, b) == IF a <= b THEN a ELSE b

\* A level is held in half decibels, h = 2 * db_val: for these levels the
\* float arithmetic of the code is exact up to the truncation.

\* Mutation of db_to_meter: the value is not clamped before it is truncated.
db_to_meter_unclamped(h) == ((h + 120) * 5) \div 6

\* linear = max(0, min(100, (db_val + 60) * (100 / 60))); int(linear).
\* (db_val + 60) * 100 / 60 = (h + 120) * 5 / 6: the clamp is done on the
\* numerator, in sixths, and int() drops the fraction.
db_to_meter(h) == py_max(0, py_min(600, (h + 120) * 5)) \div 6

\* The levels a line of the encoder's stderr may carry, in half decibels:
\* from MaxOver dB below the scale (-60 dB) to MaxOver dB above it (0 dB).
HalfDbs == (-2 * (60 + MaxOver))..(2 * MaxOver)

\* What stderr.readline() may return: a line with an RMS level, a line
\* without one, a line whose level does not parse as a float ("-inf"), and
\* the empty line of a closed pipe.
StderrLine(kind, level) == [kind |-> kind, level |-> level]
StderrLines ==
    { StderrLine("level", h) : h \in HalfDbs }
    \cup { StderrLine("other", 0), StderrLine("malformed", 0),
           StderrLine("eof", 0) }

\* A step of the meter task leaves everything but the meter alone.
MeterFrame ==
    UNCHANGED <<os, now, restart, debug_restart, set_source, reconnect,
                serving, appended, tasks, sockets, broadcast, pulse,
                event_loop, consumer, config>>

\* audio_monitor_loop at the top of its loop: with an encoder it waits for
\* a line of its stderr; without one it zeroes the meter and sleeps.
audio_monitor_loop ==
    /\ LoopFree
    /\ "audio_monitor_loop" \in tasks
    /\ monitor.pc = "loop"
    /\ IF state.ffmpeg_process # NoProcess
       THEN /\ monitor' = [monitor EXCEPT !.pc = "readline"]
            /\ state' = state
       ELSE /\ monitor' = monitor
            /\ state' = no_stream(state)
    /\ last_op' = [name |-> "audio_monitor_loop", calls |-> <<>>,
                   io |-> <<>>, ret |-> Ret("", 0)]
    /\ MeterFrame

\* audio_monitor_loop once readline has returned: a level is converted and
\* stored; any other line, and a level that raises in float(), leaves the
\* meter as it is.
audio_monitor_readline ==
    /\ LoopFree
    /\ "audio_monitor_loop" \in tasks
    /\ monitor.pc = "readline"
    /\ \E line \in StderrLines :
         /\ monitor' = [pc |-> "loop", line |-> line]
         /\ state' = IF line.kind = "level"
                     THEN [state EXCEPT !.current_rms = db_to_meter(line.level)]
                     ELSE state
    /\ last_op' = [name |-> "audio_monitor_readline", calls |-> <<>>,
                   io |-> <<>>, ret |-> Ret("", 0)]
    /\ MeterFrame

\* The pipeline as the meter task may find it: stopped, or streaming.
InitMeter ==
    /\ \/ /\ state = lifespan_startup(SystemState)
          /\ os = NoProcesses
          /\ now = 1
       \/ /\ state = Streaming.state
          /\ os = Streaming.os
          /\ now = 2
    /\ restart = RestartIdle
    /\ debug_restart = "idle"
    /\ set_source = SetSourceIdle
    /\ reconnect = "idle"
    /\ serving = TRUE
    /\ last_op = [name |-> "init", calls |-> <<>>, io |-> <<>>, ret |-> Ret("", 0)]
    /\ appended = [conn |-> <<>>, err |-> <<>>]
    /\ InitRest

\* The thread start_ffmpeg_stream starts after a launch, log_ffmpeg_stderr:
\* "for line in state.ffmpeg_process.stderr" takes the next line of the
\* same pipe the meter task reads and writes it to the debug log.  While
\* the encoder runs the pipe is open and the thread alive; the line it
\* takes is not seen by any other reader.
log_ffmpeg_stderr ==
    /\ state.ffmpeg_process \in os.alive
    /\ \E line \in StderrLines :
         /\ line.kind # "eof"
         /\ last_op' = [name |-> "log_ffmpeg_stderr", calls |-> <<>>,
                        io |-> <<>>, ret |-> Ret(line.kind, 0)]
    /\ UNCHANGED <<state, os, now, restart, debug_restart, set_source,
                   reconnect, serving, appended, tasks, sockets, broadcast,
                   monitor, pulse, event_loop, consumer, config>>

NextMeter ==
    \/ audio_monitor_loop
    \/ audio_monitor_readline
    \/ log_ffmpeg_stderr

SpecMeter == InitMeter /\ [][NextMeter]_vars

\* --------------------------------- the broadcaster beside the pipeline

NextBroadcast ==
    \/ websocket_endpoint
    \/ client_disconnect
    \/ websocket_disconnect
    \/ periodic_update
    \/ broadcast_status

SpecBroadcast == Init /\ [][NextBroadcast]_vars

\* The server with every WebSocket subscribed, the encoder streaming from
\* the preferred source since time 1, and the meter at 50 after a line with
\* -30 dB.
InitSnapshot ==
    /\ state = [Streaming.state EXCEPT
                   !.current_rms = db_to_meter(-60),
                   !.active_connections = [i \in 1..MaxSockets |-> i]]
    /\ os = Streaming.os
    /\ now = 2
    /\ restart = RestartIdle
    /\ debug_restart = "idle"
    /\ set_source = SetSourceIdle
    /\ reconnect = "idle"
    /\ serving = TRUE
    /\ last_op = [name |-> "init", calls |-> <<>>, io |-> <<>>, ret |-> Ret("", 0)]
    /\ appended = [conn |-> <<>>, err |-> <<>>]
    /\ tasks = BackgroundTasks
    /\ sockets = [ws \in Sockets |-> [NewSocket EXCEPT !.handler = "receiving"]]
    /\ broadcast = BroadcastIdle
    /\ monitor = [pc |-> "loop", line |-> StderrLine("level", -60)]
    /\ pulse = NoPulse
    /\ event_loop = LoopIdle
    /\ consumer = NoConsumer
    /\ config = ConfigIdle

\* The broadcaster with the requests and the meter task that write what the
\* status shows.
NextSnapshot ==
    \/ periodic_update
    \/ broadcast_status
    \/ stream_generator_pulse
    \/ api_stop_stream
    \/ audio_monitor_loop

SpecSnapshot == InitSnapshot /\ [][NextSnapshot]_vars

\* ------------------------------------------ the meter beside the pipeline

\* The meter task with the request that stops the encoder, and no request
\* that starts it.
NextMeterFair ==
    \/ audio_monitor_loop
    \/ audio_monitor_readline
    \/ api_stop_stream

\* audio_monitor_loop is a task of the event loop: its sleeps end and it is
\* run again, and a readline handed to a worker thread returns, with a line
\* the encoder wrote or, once the encoder is gone, with the end of the
\* stream.
SpecMeterFair ==
    /\ InitMeter
    /\ [][NextMeterFair]_vars
    /\ WF_vars(audio_monitor_loop)
    /\ WF_vars(audio_monitor_readline)

\* ------------------------------------- blocking calls and the event loop

\* The handlers are coroutines: between two awaits a handler runs on the
\* event loop's thread and nothing else does.  stop_ffmpeg_stream and
\* start_ffmpeg_stream are plain functions the handlers call without
\* await; the reads of the encoder's pipes are handed to worker threads
\* with asyncio.to_thread.  Here the segment of a handler that makes a
\* blocking call is taken in two steps, the call entered and the call
\* returned, with the event loop's thread inside the call in between.

\* POST /api/stream/stop with the encoder present: stop_ffmpeg_stream has
\* called terminate() and is inside ffmpeg_process.wait(timeout=2).
api_stop_stream_wait ==
    /\ Accept
    /\ state.ffmpeg_process # NoProcess
    /\ event_loop' = [event_loop EXCEPT !.running = "wait"]
    /\ last_op' = [name |-> "api_stop_stream_wait", calls |-> <<>>,
                   io |-> <<"terminate">>, ret |-> Ret("", 0)]
    /\ UNCHANGED <<state, os, now, restart, debug_restart, set_source,
                   reconnect, serving, appended, tasks, sockets, broadcast,
                   monitor, pulse, consumer, config>>

\* wait has returned or raised TimeoutExpired: the rest of the stop.
api_stop_stream_waited ==
    /\ event_loop.running = "wait"
    /\ \E g \in Graces :
         Commit(stop_ffmpeg_stream(World, g, now), "api_stop_stream",
                Ret("success", 0))
    /\ UNCHANGED <<restart, debug_restart, set_source, reconnect, serving, tasks>>

\* GET /live.mp3 with no encoder and no preferred source:
\* start_ffmpeg_stream is inside subprocess.run(["pactl", ...], timeout=5)
\* of get_bluetooth_audio_source.
stream_generator_pactl ==
    /\ Accept
    /\ state.ffmpeg_process = NoProcess
    /\ pulse.preferred_source \in {None, ""}
    /\ event_loop' = [event_loop EXCEPT !.running = "pactl"]
    /\ last_op' = [name |-> "stream_generator_pactl", calls |-> <<>>,
                   io |-> <<>>, ret |-> Ret("", 0)]
    /\ UNCHANGED <<state, os, now, restart, debug_restart, set_source,
                   reconnect, serving, appended, tasks, sockets, broadcast,
                   monitor, pulse, consumer, config>>

\* pactl has returned: the rest of the start.
stream_generator_pactl_returned ==
    /\ event_loop.running = "pactl"
    /\ Commit(start_ffmpeg_stream(World, pulse, now), "stream_generator",
              Ret("streaming", 0))
    /\ UNCHANGED <<restart, debug_restart, set_source, reconnect, serving, tasks>>

\* A consumer at "await asyncio.to_thread(state.ffmpeg_process.stdout.read,
\* 4096)": on its first pass (start_ffmpeg_stream returns at once, there is
\* a handle) or resumed after a yield, it finds a handle, hands the read
\* of that handle's stdout to a worker thread and is suspended.
stream_generator_to_thread ==
    /\ LoopFree
    /\ consumer.pc \in {"none", "yield"}
    /\ state.ffmpeg_process # NoProcess
    /\ "stdout.read" \notin event_loop.to_thread
    /\ event_loop' = [event_loop EXCEPT !.to_thread = @ \cup {"stdout.read"}]
    /\ consumer' = [pc |-> "read", stdout |-> state.ffmpeg_process]
    /\ last_op' = [name |-> "stream_generator_to_thread", calls |-> <<>>,
                   io |-> <<>>, ret |-> Ret("", 0)]
    /\ UNCHANGED <<state, os, now, restart, debug_restart, set_source,
                   reconnect, serving, appended, tasks, sockets, broadcast,
                   monitor, pulse, config>>

\* The read has returned in its thread and the consumer is resumed with the
\* data, which it yields, or with the empty string of an encoder that is
\* gone, on which the loop breaks.  Neither way writes to the state; an
\* exception in the loop is only logged.
stream_generator_resumed ==
    /\ LoopFree
    /\ consumer.pc = "read"
    /\ "stdout.read" \in event_loop.to_thread
    /\ event_loop' = [event_loop EXCEPT !.to_thread = @ \ {"stdout.read"}]
    /\ consumer' = [consumer EXCEPT
                       !.pc = IF consumer.stdout \in os.alive
                              THEN "yield" ELSE "done"]
    /\ last_op' = [name |-> "stream_generator_read", calls |-> <<>>, io |-> <<>>,
                    ret |-> Ret(IF consumer.stdout \in os.alive
                                THEN "data" ELSE "eof", 0)]
    /\ UNCHANGED <<state, os, now, restart, debug_restart, set_source,
                   reconnect, serving, appended, tasks, sockets, broadcast,
                   monitor, pulse, config>>

\* The consumer resumed after a yield finds no handle: "if not
\* state.ffmpeg_process: break".
stream_generator_break ==
    /\ LoopFree
    /\ consumer.pc = "yield"
    /\ state.ffmpeg_process = NoProcess
    /\ consumer' = [consumer EXCEPT !.pc = "done"]
    /\ last_op' = [name |-> "stream_generator_break", calls |-> <<>>,
                   io |-> <<>>, ret |-> Ret("absent", 0)]
    /\ UNCHANGED <<state, os, now, restart, debug_restart, set_source,
                   reconnect, serving, appended, tasks, sockets, broadcast,
                   monitor, pulse, event_loop, config>>

\* The client goes away and the generator is closed at its yield: the
\* function has no finally clause and GeneratorExit is not an Exception.
stream_generator_close ==
    /\ LoopFree
    /\ consumer.pc = "yield"
    /\ consumer' = [consumer EXCEPT !.pc = "done"]
    /\ last_op' = [name |-> "stream_generator_close", calls |-> <<>>,
                   io |-> <<>>, ret |-> Ret("closed", 0)]
    /\ UNCHANGED <<state, os, now, restart, debug_restart, set_source,
                   reconnect, serving, appended, tasks, sockets, broadcast,
                   monitor, pulse, event_loop, config>>

NextLoop ==
    \/ api_stop_stream_wait
    \/ api_stop_stream_waited
    \/ stream_generator_pactl
    \/ stream_generator_pactl_returned
    \/ stream_generator_to_thread
    \/ stream_generator_resumed
    \/ stream_generator_break
    \/ stream_generator_close
    \/ periodic_update
    \/ audio_monitor_loop
    \/ ffmpeg_exit

\* The pipeline stopped or streaming, no WebSocket subscribed, and an
\* encoder that writes no line to its stderr and may exit by itself.
SpecLoop == InitMeter /\ [][NextLoop]_vars

\* ------------------------------------------- BluetoothConnectionMonitor

\* What the three shell commands of get_connected_bluetooth_device print.
\* "bluetoothctl info": whether "Connected: yes" is in the output and the
\* text after "Name:", with or without blanks behind it (BlueZ prints the
\* Name line only for a name that is not empty).  "pactl list sources
\* short | grep -i bluez": whether a line comes out.  "pactl list sources |
\* ... | grep device.description | head -1": the text between the quotes,
\* which may be empty.  And the command, if any, that cannot be spawned.
NameLines ==
    {[text |-> None, blanks |-> FALSE]}
        \cup [text : {"Phone"}, blanks : BOOLEAN]
DescriptionLines == {None, "", "Phone A2DP"}
Spawns == {"ok", "bluetoothctl", "pactl_short", "pactl_list"}
BluetoothQueries ==
    [ connected : BOOLEAN, name : NameLines, bluez_listed : BOOLEAN,
      description : DescriptionLines, raises : Spawns ]

\* re.search(r"Name:\s*(.+)", output).group(1).strip(): the blanks around
\* the text are not part of the name.
name_match(line) == line.text

\* re.search(r'device\.description\s*=\s*"([^"]+)"', ...): at least one
\* character between the quotes.
desc_match(line) == IF line = "" THEN None ELSE line

\* What a call returns and the return statement it leaves by.
Returned(device, branch) == [device |-> device, branch |-> branch]

\* Mutation of get_connected_bluetooth_device: the name is returned whether
\* or not the output says "Connected: yes".
get_connected_bluetooth_device_any_name(q) ==
    IF q.raises = "bluetoothctl" THEN Returned(None, "raised")
    ELSE IF name_match(q.name) # None
    THEN Returned(name_match(q.name), "bluetoothctl")
    ELSE IF q.raises = "pactl_short" THEN Returned(None, "raised")
    ELSE IF ~q.bluez_listed THEN Returned(None, "none")
    ELSE IF q.raises = "pactl_list" THEN Returned(None, "raised")
    ELSE IF desc_match(q.description) # None
    THEN Returned(desc_match(q.description), "pactl_description")
    ELSE Returned("Bluetooth Device", "pactl_placeholder")

\* get_connected_bluetooth_device: bluetoothctl first, then the bluez
\* sources of PulseAudio; an exception anywhere is logged and None
\* returned.
get_connected_bluetooth_device(q) ==
    IF q.raises = "bluetoothctl" THEN Returned(None, "raised")
    ELSE IF q.connected /\ name_match(q.name) # None
    THEN Returned(name_match(q.name), "bluetoothctl")
    ELSE IF q.raises = "pactl_short" THEN Returned(None, "raised")
    ELSE IF ~q.bluez_listed THEN Returned(None, "none")
    ELSE IF q.raises = "pactl_list" THEN Returned(None, "raised")
    ELSE IF desc_match(q.description) # None
    THEN Returned(desc_match(q.description), "pactl_description")
    ELSE Returned("Bluetooth Device", "pactl_placeholder")

\* Mutation of set_bt_connected: a device that appears is also written to
\* the connection history.
set_bt_connected_logs_arrival(s, device, t) ==
    IF s.bt_connected = None /\ device # None
    THEN add_connection_event([s EXCEPT !.bt_connected = device],
                              "bluetooth", Msg("Connected: ", device), t)
    ELSE [s EXCEPT !.bt_connected = device]

\* The assignment of bluetooth_monitor_loop: state.bt_connected = ...
set_bt_connected(s, device, t) == [s EXCEPT !.bt_connected = device]

\* One pass of bluetooth_monitor_loop, from the answers of the commands to
\* "await asyncio.sleep(3)".
bluetooth_monitor_loop ==
    /\ LoopFree
    /\ "bluetooth_monitor_loop" \in tasks
    /\ \E q \in BluetoothQueries :
         LET r == get_connected_bluetooth_device(q)
             w == [World EXCEPT
                     !.state = set_bt_connected(@, r.device, now),
                     !.calls = <<[fn |-> "get_connected_bluetooth_device",
                                  branch |-> r.branch, query |-> q]>>]
         IN  Commit(w, "bluetooth_monitor_loop", Ret("sleep", 0))
    /\ UNCHANGED <<restart, debug_restart, set_source, reconnect, serving, tasks>>

NextBluetooth ==
    \/ bluetooth_monitor_loop
    \/ stream_generator_pulse
    \/ api_stop_stream
    \/ ffmpeg_exit

\* The Bluetooth monitor beside the pipeline, stopped or streaming as the
\* monitor makes its first pass.
SpecBluetooth == InitMeter /\ [][NextBluetooth]_vars

\* ------------------------------------------------- the configuration

\* ConfigManager.reload: self.config = self.load_config(), which merges
\* the document of config.json into the defaults, or returns the defaults
\* when the file is missing or cannot be parsed.
load_config ==
    /\ \E file \in ConfigFiles :
         IF isinstance_dict(file)
         THEN LET merged == _merge_configs(DEFAULT_CONFIG, file)
              IN  config' = [config |-> merged, base |-> DEFAULT_CONFIG,
                             updates |-> file, merged |-> merged]
         ELSE config' = [config EXCEPT !.config = DEFAULT_CONFIG]
    /\ last_op' = [name |-> "load_config", calls |-> <<>>, io |-> <<>>,
                   ret |-> Ret("", 0)]
    /\ UNCHANGED <<state, os, now, restart, debug_restart, set_source,
                   reconnect, serving, appended, tasks, sockets, broadcast,
                   monitor, pulse, event_loop, consumer>>

\* ConfigManager.update(updates)
update ==
    /\ \E updates \in Documents :
         LET merged == _merge_configs(config.config, updates)
         IN  config' = [config |-> merged, base |-> config.config,
                        updates |-> updates, merged |-> merged]
    /\ last_op' = [name |-> "update", calls |-> <<>>, io |-> <<>>,
                   ret |-> Ret("", 0)]
    /\ UNCHANGED <<state, os, now, restart, debug_restart, set_source,
                   reconnect, serving, appended, tasks, sockets, broadcast,
                   monitor, pulse, event_loop, consumer>>

NextConfig ==
    \/ load_config
    \/ update

\* The configuration reloaded and updated, the server idle.
SpecConfig == Init /\ [][NextConfig]_vars

\* ------------------------------------------------------------------ claims

\* C1: in every state between handler segments, is_streaming is true exactly
\* when the encoder handle is present, whatever sequence of start, stop,
\* restart, stream request, set-source and shutdown led there.
C1_StreamingIffHandle ==
    state.is_streaming <=> (state.ffmpeg_process # NoProcess)

\* C1 witness: the encoder was launched by a manual set-source and is
\* streaming.
C1_Witness ==
    /\ last_op.name = "api_set_source_launch"
    /\ last_op.io = <<"Popen">>
    /\ state.is_streaming
    /\ state.ffmpeg_process # NoProcess

\* C2: at most one encoder process is alive, and every alive encoder process
\* is the one the handle refers to.
C2_SingleEncoder ==
    /\ Cardinality(os.alive) <= 1
    /\ os.alive \subseteq {state.ffmpeg_process}

\* C3: the connection history holds at most 50 entries and the error log at
\* most 100, and each equals the last 50 (100) entries ever appended, in
\* append order.
C3_RingBuffers ==
    LET conn == state.connection_history
        err == state.error_log
        nc == Len(appended.conn)
        ne == Len(appended.err)
    IN  /\ Len(conn) <= 50
        /\ Len(err) <= 100
        /\ conn = SubSeq(appended.conn, IF nc > 50 THEN nc - 49 ELSE 1, nc)
        /\ err = SubSeq(appended.err, IF ne > 100 THEN ne - 99 ELSE 1, ne)

\* C3 witness: both logs have dropped entries, and an append made at
\* capacity is the newest entry of each.
C3_Witness ==
    /\ Len(appended.conn) > 50
    /\ Len(appended.err) > 100
    /\ state.connection_history[50].timestamp >= 1
    /\ state.error_log[100].timestamp >= 1
    /\ Len(state.connection_history) = 50
    /\ Len(state.error_log) = 100

\* The handler segments that are one call of start_ffmpeg_stream and nothing
\* else, and those that are one call of stop_ffmpeg_stream and nothing else.
StartSegments ==
    {"api_start_stream", "stream_generator", "debug_restart_stream_start",
     "api_bluetooth_reconnect_start"}
StopSegments ==
    {"api_stop_stream", "stop_cast", "api_restart_stream",
     "debug_restart_stream", "api_set_source",
     "api_bluetooth_reconnect_device"}

\* The step is a call of start_ffmpeg_stream (of stop_ffmpeg_stream).
StartCall ==
    /\ last_op'.name \in StartSegments
    /\ Len(last_op'.calls) = 1
    /\ last_op'.calls[1].fn = "start_ffmpeg_stream"
StopCall ==
    /\ last_op'.name \in StopSegments
    /\ Len(last_op'.calls) = 1
    /\ last_op'.calls[1].fn = "stop_ffmpeg_stream"

\* The history after one append of event `e` to history `h`.
Pushed(h, e, cap) == IF Len(h) < cap THEN Append(h, e) ELSE Append(Tail(h), e)

\* C4: a start request that finds the encoder running changes nothing: no
\* process is launched and no field of the state changes.
C4_StartWhileRunningIsNoOp ==
    [][ (last_op'.name \in StartSegments /\ state.ffmpeg_process # NoProcess)
        => /\ state' = state
           /\ os' = os
           /\ last_op'.io = <<>> ]_vars

\* C4 witness: start_ffmpeg_stream was called with the encoder running.
C4_Witness ==
    /\ last_op.name = "stream_generator"
    /\ last_op.calls = <<[fn |-> "start_ffmpeg_stream", branch |-> "already_running"]>>
    /\ state.is_streaming
    /\ state.ffmpeg_process \in os.alive

\* C5: stop_ffmpeg_stream on a stopped pipeline changes nothing: no log
\* entry, no terminate or kill, and the pipeline stays stopped.
C5_StopWhileStoppedIsNoOp ==
    [][ (StopCall /\ state.ffmpeg_process = NoProcess)
        => /\ state' = state
           /\ os' = os
           /\ last_op'.io = <<>>
           /\ ~state'.is_streaming
           /\ state'.stream_start_time = NoTime
           /\ state'.ffmpeg_process = NoProcess ]_vars

\* C5 witness: stop was called on a pipeline an earlier stop had stopped.
C5_Witness ==
    /\ last_op.name = "api_stop_stream"
    /\ last_op.calls = <<[fn |-> "stop_ffmpeg_stream", branch |-> "not_running"]>>
    /\ state.connection_history # <<>>
    /\ state.connection_history[Len(state.connection_history)].details
         = Msg("Audio stream stopped", "")

\* C6: stop_ffmpeg_stream on a running encoder clears the handle, the
\* streaming flag and the start time, leaves the process dead and appends
\* exactly one connection-history entry, killed or not.
C6_StopClearsAndRecords ==
    [][ (StopCall /\ state.ffmpeg_process # NoProcess)
        => /\ state'.ffmpeg_process = NoProcess
           /\ ~state'.is_streaming
           /\ state'.stream_start_time = NoTime
           /\ state.ffmpeg_process \notin os'.alive
           /\ state'.connection_history =
                Pushed(state.connection_history,
                       [timestamp |-> now, type |-> "stream",
                        details |-> Msg("Audio stream stopped", "")], 50) ]_vars

\* C6 witness: a stop that had to kill the encoder.
C6_Witness ==
    /\ last_op.name = "api_stop_stream"
    /\ last_op.io = <<"terminate", "wait_timeout", "kill">>
    /\ state.ffmpeg_process = NoProcess

\* C7: a start_ffmpeg_stream that launches the encoder from stopped leaves
\* the pipeline streaming with the new handle, the start time set to the
\* time of the call, no last error, and the stream start as the newest
\* connection-history entry.
C7_StartSuccess ==
    [][ (StartCall /\ state.ffmpeg_process = NoProcess
                   /\ last_op'.io = <<"Popen">>)
        => /\ state'.is_streaming
           /\ state'.ffmpeg_process # NoProcess
           /\ state'.ffmpeg_process \in os'.alive \ os.alive
           /\ state'.stream_start_time = now
           /\ state'.last_error = NoError
           /\ Len(state'.connection_history) > Len(state.connection_history)
           /\ state'.connection_history[Len(state'.connection_history)]
                = [timestamp |-> now, type |-> "stream",
                   details |-> Msg("Audio stream started", "192k")] ]_vars

\* C7 witness: a start that fell back to the default source, logged that as
\* an error, launched, and cleared the last error.
C7_Witness ==
    /\ last_op.name \in StartSegments
    /\ last_op.io = <<"Popen">>
    /\ state.is_streaming
    /\ state.error_log # <<>>
    /\ state.error_log[Len(state.error_log)].timestamp = state.stream_start_time
    /\ state.last_error = NoError

\* The pipeline is stopped.
Stopped(s) ==
    /\ s.ffmpeg_process = NoProcess
    /\ ~s.is_streaming
    /\ s.stream_start_time = NoTime

\* C8 as claimed: a start_ffmpeg_stream whose launch fails leaves the
\* pipeline stopped and appends exactly one error-log entry, whose message
\* is the last error.
C8_Original ==
    [][ (StartCall /\ state.ffmpeg_process = NoProcess
                   /\ last_op'.io = <<"Popen_raised">>)
        => /\ Stopped(state')
           /\ Len(state'.error_log) = Len(state.error_log) + 1
           /\ state'.last_error
                = state'.error_log[Len(state'.error_log)].message ]_vars

\* C8 as amended: a start_ffmpeg_stream whose launch fails leaves the
\* pipeline stopped; the launch failure is the newest error-log entry and
\* the last error; it is the only entry appended, unless the source was the
\* default-input fallback, whose error entry precedes it.
C8_LaunchFailure ==
    [][ (StartCall /\ state.ffmpeg_process = NoProcess
                   /\ last_op'.io = <<"Popen_raised">>)
        => LET old == state.error_log
               new == state'.error_log
               failure == [timestamp |-> now, type |-> "stream",
                           message |-> Msg("Failed to start FFmpeg: ", "OSError")]
               fallback == [timestamp |-> now, type |-> "bluetooth",
                            message |-> Msg("No Bluetooth source found, using default audio source", "")]
           IN  /\ Stopped(state')
               /\ state'.last_error = failure.message
               /\ \/ new = Pushed(old, failure, 100)
                  \/ new = Pushed(Pushed(old, fallback, 100), failure, 100) ]_vars

\* C8 witness: a launch failure after the fallback to the default source:
\* two error entries of the same call.
C8_Witness ==
    /\ last_op.name \in StartSegments
    /\ last_op.io = <<"Popen_raised">>
    /\ Stopped(state)
    /\ Len(state.error_log) >= 2
    /\ state.error_log[Len(state.error_log) - 1].message.text
         = "No Bluetooth source found, using default audio source"
    /\ state.error_log[Len(state.error_log) - 1].timestamp
         = state.error_log[Len(state.error_log)].timestamp
    /\ state.last_error = Msg("Failed to start FFmpeg: ", "OSError")

\* C9 as claimed: a start_ffmpeg_stream that does not launch the encoder
\* (the launch fails, or no source is found) leaves current_audio_source as
\* it was.
C9_Original ==
    [][ (StartCall /\ state.ffmpeg_process = NoProcess
                   /\ last_op'.io # <<"Popen">>)
        => state'.current_audio_source = state.current_audio_source ]_vars

\* C9 as amended: current_audio_source changes only in a step that attempts
\* a launch; a start_ffmpeg_stream that finds no source leaves it as it was,
\* and one whose launch fails leaves it at the source it had chosen (the
\* Bluetooth source it recorded, when it recorded one).
C9_SourceSetBeforeLaunch ==
    [][ /\ (state'.current_audio_source # state.current_audio_source)
            => last_op'.io \in {<<"Popen">>, <<"Popen_raised">>}
        /\ (StartCall /\ state.ffmpeg_process = NoProcess /\ last_op'.io = <<>>)
            => state'.current_audio_source = state.current_audio_source
        /\ (StartCall /\ state.ffmpeg_process = NoProcess
                      /\ last_op'.io = <<"Popen_raised">>)
            => LET h == state'.connection_history
               IN  /\ state'.current_audio_source # None
                   /\ (Len(h) > Len(state.connection_history)
                       /\ h[Len(h)].type = "audio_source")
                      => state'.current_audio_source = h[Len(h)].details.arg ]_vars

\* C9 witness: a failed launch from a pipeline that had no source before
\* left the chosen source behind.
C9_Witness ==
    /\ last_op.name \in StartSegments
    /\ last_op.io = <<"Popen_raised">>
    /\ Stopped(state)
    /\ state.current_audio_source # None
    /\ os.launched = 0

\* C10: in every state a set stream_start_time implies is_streaming.
C10_StartTimeImpliesStreaming ==
    (state.stream_start_time # NoTime) => state.is_streaming

\* C10 witness: the start time is set after a restart, and cleared again
\* (with the flag) by the stop of a later restart.
C10_Witness ==
    /\ last_op.name = "api_restart_stream_attempt"
    /\ state.stream_start_time # NoTime
    /\ state.is_streaming

\* The error-log entries a failed launch and an exhausted restart append.
LaunchFailure(t) ==
    [timestamp |-> t, type |-> "stream",
     message |-> Msg("Failed to start FFmpeg: ", "OSError")]
RestartExhausted(t) ==
    [timestamp |-> t, type |-> "stream",
     message |-> Msg("Failed to restart stream after ", "3")]

\* How many launch failures an error log holds.
LaunchFailures(log) ==
    Cardinality({i \in DOMAIN log : log[i].message = LaunchFailure(0).message})

\* The step is an iteration of the restart's retry loop.
RestartAttempt == last_op'.name = "api_restart_stream_attempt"

\* C11: with max_retries = 3 and retry_delay = 5 the restart has slept 5
\* before its second attempt and 5 then 10 before its third, that is
\* retry_delay * 2^n after failed attempt n; it sleeps after a failed attempt
\* exactly when it is not the last, and a success at the first attempt
\* follows no backoff sleep and reports one attempt.
C11_BackoffDelays ==
    [][ RestartAttempt
        => LET n == restart.attempt
               backoffs == Tail(restart.sleeps)
           IN  /\ backoffs = [i \in 1..n |-> retry_delay * 2^(i - 1)]
               /\ n = 1 => backoffs = <<5>>
               /\ n = 2 => backoffs = <<5, 10>>
               /\ (~state'.is_streaming /\ n < max_retries - 1)
                    => /\ restart'.pc = "backoff"
                       /\ restart'.sleeps
                            = Append(restart.sleeps, retry_delay * 2^n)
               /\ n >= max_retries - 1 => restart'.pc = "idle"
               /\ (state'.is_streaming /\ n = 0)
                    => /\ backoffs = <<>>
                       /\ last_op'.ret = Ret("success", 1)
                       /\ restart'.pc = "idle" ]_vars

\* C11 witness: a restart about to make its third attempt, having slept the
\* settle delay, then 5, then 10.
C11_Witness ==
    /\ restart.pc = "backoff"
    /\ restart.attempt = 2
    /\ restart.sleeps = <<1, 5, 10>>

\* C12: every attempt of a restart whose launch fails appends one launch
\* failure to the error log; when the launches of all three attempts fail,
\* the restart returns an error, the third launch failure and after it the
\* entry of the exhausted restart are the newest error-log entries, and the
\* pipeline is stopped.
C12_RestartExhausted ==
    [][ (RestartAttempt /\ last_op'.io = <<"Popen_raised">>)
        => LET old == state.error_log
               new == state'.error_log
           IN  /\ LaunchFailures(new) = LaunchFailures(old) + 1
               /\ restart.starts = <<"launch_failed", "launch_failed">>
                    => /\ last_op'.ret.status = "error"
                       /\ restart'.pc = "idle"
                       /\ Stopped(state')
                       /\ Len(new) >= 2
                       /\ new[Len(new) - 1] = LaunchFailure(now)
                       /\ new[Len(new)] = RestartExhausted(now)
                       /\ state'.last_error = RestartExhausted(now).message ]_vars

\* C12 witness: a restart returned its error after three failed launches,
\* all three in the error log.
C12_Witness ==
    /\ last_op.name = "api_restart_stream_attempt"
    /\ last_op.ret.status = "error"
    /\ last_op.io = <<"Popen_raised">>
    /\ LaunchFailures(state.error_log) = 3
    /\ Stopped(state)

\* C13: a restart begins with one stop_ffmpeg_stream, which stops the
\* encoder if it runs, and the settle sleep, before any start; each
\* iteration then calls start_ffmpeg_stream once, at most max_retries times
\* in all; the iteration whose start leaves the stream up, and none of those
\* before it did, returns success at once, and the attempts it reports are
\* the starts made.
C13_RestartAttempts ==
    [][ /\ last_op'.name = "api_restart_stream"
            => /\ Len(last_op'.calls) = 1
               /\ last_op'.calls[1].fn = "stop_ffmpeg_stream"
               /\ (state.ffmpeg_process # NoProcess)
                    => /\ last_op'.io[1] = "terminate"
                       /\ state.ffmpeg_process \notin os'.alive
               /\ state'.ffmpeg_process = NoProcess
               /\ restart' = [pc |-> "settle", attempt |-> 0,
                              sleeps |-> <<settle_delay>>, starts |-> <<>>]
        /\ RestartAttempt
            => LET made == Len(restart.starts) + 1
               IN  /\ Len(last_op'.calls) = 1
                   /\ last_op'.calls[1].fn = "start_ffmpeg_stream"
                   /\ made <= max_retries
                   /\ restart.sleeps[1] = settle_delay
                   /\ \A i \in DOMAIN restart.starts :
                        restart.starts[i] \in {"launch_failed", "no_source"}
                   /\ state'.is_streaming
                        => /\ last_op'.ret = Ret("success", made)
                           /\ restart'.pc = "idle"
                   /\ last_op'.ret.status = "success" => state'.is_streaming
                   /\ restart'.pc = "backoff"
                        => /\ ~state'.is_streaming
                           /\ Len(restart'.starts) = made ]_vars

\* C13 witness: a restart that succeeded at its second attempt.
C13_Witness ==
    /\ last_op.name = "api_restart_stream_attempt"
    /\ last_op.ret = Ret("success", 2)
    /\ last_op.io = <<"Popen">>
    /\ state.is_streaming

\* C14: a subscriber whose push failed in a broadcast tick is out of the
\* subscriber list when the tick ends and no later tick sends to it; every
\* other subscriber that was in the list for the whole of that tick, its
\* connection up, has received the push of the tick and is still in the list.
C14_SubscriberPruning ==
    LET connections == Range(state.active_connections)
        failed == Range(broadcast.to_remove)
    IN  /\ broadcast.pc = "send" => sockets[broadcast.connection].failed = 0
        /\ (broadcast.pc = "sleep" /\ broadcast.tick > 0)
             => /\ failed \cap connections = {}
                /\ failed # {}
                     => \A ws \in broadcast.stayed \ failed :
                          sockets[ws].link = "up"
                            => /\ ws \in connections
                               /\ \E i \in DOMAIN sockets[ws].received :
                                    sockets[ws].received[i].tick = broadcast.tick

\* The part of C14 about the failed subscriber alone.
C14_FailedIsPruned ==
    LET connections == Range(state.active_connections)
        failed == Range(broadcast.to_remove)
    IN  /\ broadcast.pc = "send" => sockets[broadcast.connection].failed = 0
        /\ (broadcast.pc = "sleep" /\ broadcast.tick > 0)
             => failed \cap connections = {}

\* A line names a Bluetooth device: it contains "bluez" and has a name.
IsBluetooth(line) == line.bluez /\ Len(line.parts) >= 2

\* The step is a start_ffmpeg_stream that resolves a source in `pulse`.
Resolves ==
    /\ last_op'.name = "stream_generator"
    /\ state.ffmpeg_process = NoProcess

\* C15: a start with a preferred source configured uses that source as
\* written, whatever the enumerations hold and whether or not they can be
\* run; a start with no preference that enumerates both an A2DP and a
\* non-A2DP Bluetooth input uses an A2DP one, in either enumeration order.
C15_ResolverPriority ==
    [][ Resolves
        => LET srcs == pulse.sources
               a2dp == {i \in DOMAIN srcs : IsBluetooth(srcs[i]) /\ srcs[i].a2dp}
               other == {i \in DOMAIN srcs : IsBluetooth(srcs[i]) /\ ~srcs[i].a2dp}
           IN  /\ pulse.preferred_source \notin {None, ""}
                    => state'.current_audio_source = pulse.preferred_source
               /\ (pulse.preferred_source \in {None, ""} /\ pulse.pactl_ok
                   /\ a2dp # {} /\ other # {})
                    => \E i \in a2dp :
                         state'.current_audio_source = srcs[i].parts[2] ]_vars

\* C15 witness: no preference, a headset input enumerated before an A2DP
\* input, and the A2DP input in use.
C15_Witness ==
    /\ last_op.name = "stream_generator"
    /\ pulse.preferred_source = None
    /\ Len(pulse.sources) = 2
    /\ pulse.sources[1].parts = <<"1", "bluez_input.hsp">>
    /\ pulse.sources[2].parts = <<"2", "bluez_input.a2dp">>
    /\ state.current_audio_source = "bluez_input.a2dp"
    /\ state.is_streaming

\* C16: a start with no preference, both enumerations run, no Bluetooth
\* input and at least one Bluetooth sink uses the monitor of the first
\* Bluetooth sink enumerated, its name followed by ".monitor", with the
\* fallback to the default source enabled or not; with sink0 the only
\* Bluetooth sink that is "sink0.monitor".
C16_SinkMonitor ==
    [][ Resolves
        => LET srcs == pulse.sources
               snks == pulse.sinks
               bt == {i \in DOMAIN snks : IsBluetooth(snks[i])}
               first == CHOOSE i \in bt : \A j \in bt : i <= j
           IN  (/\ pulse.preferred_source \in {None, ""}
                /\ pulse.pactl_ok /\ pulse.sinks_ok
                /\ \A i \in DOMAIN srcs : ~IsBluetooth(srcs[i])
                /\ bt # {})
               => /\ state'.current_audio_source
                       = snks[first].parts[2] \o ".monitor"
                  /\ (\A i \in bt : snks[i].parts[2] = "sink0")
                       => state'.current_audio_source = "sink0.monitor" ]_vars

\* C16 witness: the fallback disabled, a built-in input only, sink0 the one
\* Bluetooth sink, and its monitor in use.
C16_Witness ==
    /\ last_op.name = "stream_generator"
    /\ pulse.preferred_source = None
    /\ ~pulse.use_default_audio_source
    /\ pulse.sources = <<Line(<<"0", "alsa_input.pci">>, FALSE, FALSE)>>
    /\ pulse.sinks = <<Line(<<"0", "alsa_output.pci">>, FALSE, FALSE),
                       Line(<<"1", "sink0">>, TRUE, FALSE)>>
    /\ state.current_audio_source = "sink0.monitor"
    /\ state.is_streaming

\* C17: the meter is always a whole number from 0 to 100, and after a level
\* line has been read it is (db + 60) * 100 / 60 cut to the range 0..100 and
\* then truncated: 0 for -60 dB and below, 100 for 0 dB and above, 50 for
\* -30 dB.  The level is in half decibels: db = level / 2.
C17_MeterMapping ==
    /\ state.current_rms \in 0..100
    /\ (last_op.name = "audio_monitor_readline" /\ monitor.line.kind = "level")
         => LET h == monitor.line.level
                rms == state.current_rms
            IN  /\ h <= -120 => rms = 0
                /\ h >= 0 => rms = 100
                /\ h = -60 => rms = 50
                /\ (-120 < h /\ h < 0)
                     => /\ rms * 120 <= (h + 120) * 100
                        /\ (h + 120) * 100 < (rms + 1) * 120

\* C17 witness: a level between two steps of the meter was read, -12.5 dB,
\* and the meter shows 79 (79.17 truncated).
C17_Witness ==
    /\ last_op.name = "audio_monitor_readline"
    /\ monitor.line = StderrLine("level", -25)
    /\ state.current_rms = 79

\* C18: once the lifespan has shut down, the encoder is stopped, none of
\* the background tasks the lifespan created is running (the Bluetooth
\* monitor and the broadcaster among them), discovery is stopped and the
\* zeroconf instance closed.
C18_Shutdown ==
    ~serving
      => /\ Stopped(state)
         /\ state.ffmpeg_process \notin os.alive
         /\ "periodic_update" \notin tasks
         /\ "bluetooth_monitor_loop" \notin tasks
         /\ tasks = {}
         /\ state.cast_browser # "discovering"
         /\ state.zconf # "open"

\* The parts of C18 about the encoder, the broadcaster and discovery.
C18_StoppedAndReleased ==
    ~serving
      => /\ Stopped(state)
         /\ state.ffmpeg_process \notin os.alive
         /\ "periodic_update" \notin tasks
         /\ state.cast_browser # "discovering"
         /\ state.zconf # "open"

\* The log `new` is the log `old` after some appends, each of which drops
\* the oldest entry if the log is at its capacity.
Extends(old, new, cap) ==
    /\ Len(new) <= cap
    /\ Len(new) >= Len(old)
    /\ \E dropped \in 0..Len(old) :
         /\ dropped > 0 => Len(new) = cap
         /\ SubSeq(new, 1, Len(old) - dropped)
              = SubSeq(old, dropped + 1, Len(old))

\* C19 as claimed: from one state to the next each of the two logs changes
\* only by appends at its tail and by the loss of its oldest entries at
\* capacity.
C19_Original ==
    [][ /\ Extends(state.connection_history, state'.connection_history, 50)
        /\ Extends(state.error_log, state'.error_log, 100) ]_vars

\* C19 as amended: the connection history changes only by appends at its
\* tail and the loss of its oldest entries at capacity; so does the error
\* log, except that a clear-errors request empties it, last_error with it.
C19_AppendOnlyUntilCleared ==
    [][ /\ Extends(state.connection_history, state'.connection_history, 50)
        /\ \/ Extends(state.error_log, state'.error_log, 100)
           \/ /\ last_op'.name = "api_clear_errors"
              /\ state'.error_log = <<>>
              /\ state'.last_error = NoError
        /\ last_op'.name = "api_clear_errors"
             => /\ state'.error_log = <<>>
                /\ state'.connection_history = state.connection_history ]_vars

\* C19 witness: the error log was cleared at its capacity and has one entry
\* again, while the connection history, at its capacity, kept its entries.
C19_Witness ==
    /\ Len(state.error_log) = 1
    /\ state.error_log[1].timestamp > 1
    /\ Len(state.connection_history) = 50
    /\ state.connection_history[50].timestamp >= 1
    /\ state.last_error = state.error_log[1].message

\* last_error is absent or the message of the newest error-log entry.
Mirrors(s) ==
    \/ s.last_error = NoError
    \/ /\ s.error_log # <<>>
       /\ s.last_error = s.error_log[Len(s.error_log)].message

\* C20: last_error is always absent or the message of the newest error-log
\* entry; a step that appends to the error log without launching the
\* encoder leaves it at the message of the newest entry, and a step that
\* launches the encoder leaves it absent.
C20_LastErrorMirrors ==
    [][ /\ Mirrors(state')
        /\ (/\ state'.error_log # state.error_log
            /\ state'.error_log # <<>>
            /\ last_op'.io # <<"Popen">>)
             => state'.last_error
                  = state'.error_log[Len(state'.error_log)].message
        /\ last_op'.io = <<"Popen">> => state'.last_error = NoError ]_vars

\* The part of C20 that is a state invariant.
C20_MirrorInvariant == Mirrors(state)

\* C21: once a consumer's read has returned the end of the stream of an
\* encoder that exited without a stop (its handle is still held), streaming
\* is false and the exit is in the error log as a "stream" entry.
C21_UnexpectedExitReported ==
    (/\ last_op.name = "stream_generator_read"
     /\ last_op.ret.status = "eof"
     /\ state.ffmpeg_process # NoProcess
     /\ state.ffmpeg_process \notin os.alive)
        => /\ ~state.is_streaming
           /\ \E i \in DOMAIN state.error_log : state.error_log[i].type = "stream"

\* C22: a start with no preference that enumerates two or more A2DP
\* Bluetooth inputs uses the one enumerated first.
C22_FirstA2dp ==
    [][ Resolves
        => LET srcs == pulse.sources
               a2dp == {i \in DOMAIN srcs : IsBluetooth(srcs[i]) /\ srcs[i].a2dp}
               first == CHOOSE i \in a2dp : \A j \in a2dp : i <= j
           IN  (/\ pulse.preferred_source \in {None, ""}
                /\ pulse.pactl_ok
                /\ Cardinality(a2dp) >= 2)
               => state'.current_audio_source = srcs[first].parts[2] ]_vars

\* No preference is configured and the enumerations yield no Bluetooth
\* input and no Bluetooth sink: none is listed, or the query did not run.
NoBluetoothFound ==
    /\ pulse.preferred_source \in {None, ""}
    /\ \/ ~pulse.pactl_ok
       \/ /\ \A i \in DOMAIN pulse.sources : ~IsBluetooth(pulse.sources[i])
          /\ \/ ~pulse.sinks_ok
             \/ \A i \in DOMAIN pulse.sinks : ~IsBluetooth(pulse.sinks[i])

\* No preference is configured and the enumerations yield a Bluetooth input
\* or the monitor of a Bluetooth sink.
BluetoothFound ==
    /\ pulse.preferred_source \in {None, ""}
    /\ pulse.pactl_ok
    /\ \/ \E i \in DOMAIN pulse.sources : IsBluetooth(pulse.sources[i])
       \/ /\ pulse.sinks_ok
          /\ \E i \in DOMAIN pulse.sinks : IsBluetooth(pulse.sinks[i])

\* The two entries start_ffmpeg_stream writes to the error log when it
\* finds no Bluetooth source.
NoSourceAvailable(t) ==
    [timestamp |-> t, type |-> "bluetooth",
     message |-> Msg("No Bluetooth source found and fallback disabled", "")]
DegradedMode(t) ==
    [timestamp |-> t, type |-> "bluetooth",
     message |-> Msg("No Bluetooth source found, using default audio source", "")]

\* C23: a start with no preference, no Bluetooth input or sink found and the
\* fallback disabled launches no process, leaves the pipeline stopped and
\* current_audio_source and the connection history as they were, and
\* appends exactly one entry to the error log.
C23_NoSourceAvailable ==
    [][ (Resolves /\ NoBluetoothFound /\ ~pulse.use_default_audio_source)
        => /\ os' = os
           /\ last_op'.io = <<>>
           /\ state'.ffmpeg_process = NoProcess
           /\ ~state'.is_streaming
           /\ state'.stream_start_time = NoTime
           /\ state'.current_audio_source = state.current_audio_source
           /\ state'.connection_history = state.connection_history
           /\ state'.error_log
                = Pushed(state.error_log, NoSourceAvailable(now), MaxErrorLog) ]_vars

\* C23 witness: after an earlier session from the preferred source, a start
\* with the fallback disabled found a built-in input only and failed; the
\* earlier source is still recorded.
C23_Witness ==
    /\ last_op.name = "stream_generator"
    /\ pulse.preferred_source = None
    /\ ~pulse.use_default_audio_source
    /\ pulse.pactl_ok /\ pulse.sinks_ok
    /\ pulse.sources = <<Line(<<"0", "alsa_input.pci">>, FALSE, FALSE)>>
    /\ pulse.sinks = <<>>
    /\ state.current_audio_source = "preferred_src"
    /\ ~state.is_streaming
    /\ state.error_log = <<NoSourceAvailable(3)>>

\* C24: a start with no preference, no Bluetooth input or sink found and the
\* fallback enabled uses the output of the default-source query, or
\* "default" when the query fails or prints nothing, and appends one
\* degraded-mode entry to the error log; a start with no preference that
\* finds a Bluetooth input or sink uses neither and appends no such entry.
C24_FallbackToDefault ==
    [][ Resolves
        => /\ (NoBluetoothFound /\ pulse.use_default_audio_source)
                => /\ state'.current_audio_source =
                        (IF pulse.default_ok /\ pulse.default_source # ""
                         THEN pulse.default_source ELSE "default")
                   /\ state'.error_log
                        = Pushed(state.error_log, DegradedMode(now), MaxErrorLog)
           /\ BluetoothFound
                => /\ state'.current_audio_source
                        \notin {pulse.default_source, "default"}
                   /\ state'.error_log = state.error_log ]_vars

\* C24 witness: the default-source query printed nothing, no Bluetooth
\* device was enumerated, and the encoder runs on "default".
C24_Witness ==
    /\ last_op.name = "stream_generator"
    /\ pulse.preferred_source = None
    /\ pulse.use_default_audio_source
    /\ pulse.default_ok /\ pulse.default_source = ""
    /\ pulse.pactl_ok /\ pulse.sinks_ok
    /\ pulse.sources = <<Line(<<"0", "alsa_input.pci">>, FALSE, FALSE)>>
    /\ pulse.sinks = <<Line(<<"0", "alsa_output.pci">>, FALSE, FALSE)>>
    /\ state.current_audio_source = "default"
    /\ state.is_streaming
    /\ state.error_log = <<DegradedMode(1)>>

\* C25: a stop of a running encoder calls terminate() first and then waits;
\* kill() is called exactly when the wait timed out, after it, and never
\* when the process exited within the grace period or had exited before the
\* stop; only then is the handle cleared, so the stop ends with no handle
\* and the process gone, whichever way the wait ended.
C25_TwoPhaseStop ==
    [][ (StopCall /\ state.ffmpeg_process # NoProcess)
        => /\ last_op'.io \in { <<"terminate", "wait_exited">>,
                                 <<"terminate", "wait_timeout", "kill">> }
           /\ state.ffmpeg_process \notin os.alive
                => last_op'.io = <<"terminate", "wait_exited">>
           /\ state'.ffmpeg_process = NoProcess
           /\ state.ffmpeg_process \notin os'.alive ]_vars

\* C25 witness: a stop whose wait returned without a timeout: the encoder
\* was terminated and not killed.
C25_Witness ==
    /\ last_op.name = "stop_cast"
    /\ last_op.io = <<"terminate", "wait_exited">>
    /\ last_op.calls = <<[fn |-> "stop_ffmpeg_stream", branch |-> "stopped"]>>
    /\ state.ffmpeg_process = NoProcess
    /\ os.launched = 1 /\ os.alive = {}

\* The pushes of tick `tick` a WebSocket has received.
PushesOf(ws, tick) ==
    {i \in DOMAIN sockets[ws].received : sockets[ws].received[i].tick = tick}

\* C26: at the end of a broadcast tick, every subscriber that was in the
\* list from the start of the tick to its end, with its connection up, has
\* received exactly one push of that tick, whatever subscribing and
\* unsubscribing went on during the tick.
C26_MutationDuringTick ==
    (broadcast.pc = "sleep" /\ broadcast.tick > 0)
        => \A ws \in broadcast.stayed :
             sockets[ws].link = "up"
                => Cardinality(PushesOf(ws, broadcast.tick)) = 1

\* C27: the status of a tick is built from the state as it is when the tick
\* starts, and every push of the tick carries that status: two subscribers
\* pushed in the same tick received the same status, whatever was written
\* to the state between the sends.
C27_OneSnapshotPerTick ==
    /\ [][ last_op'.name = "periodic_update"
            => broadcast'.status = Status(state, now) ]_vars
    /\ [](\A ws \in Sockets : \A i \in PushesOf(ws, broadcast.tick) :
             sockets[ws].received[i].status = broadcast.status)
    /\ [](\A ws1, ws2 \in Sockets :
             \A i \in DOMAIN sockets[ws1].received :
               \A j \in DOMAIN sockets[ws2].received :
                 sockets[ws1].received[i].tick = sockets[ws2].received[j].tick
                   => sockets[ws1].received[i].status
                        = sockets[ws2].received[j].status)

\* C27 witness: the second subscriber has just been pushed the status of
\* the tick, built while the encoder was streaming with the meter at 50;
\* the encoder was stopped and the meter zeroed between the two sends.
C27_Witness ==
    /\ last_op.name = "broadcast_status"
    /\ last_op.ret = Ret("sent", 2)
    /\ Len(sockets[1].received) = 1
    /\ Len(sockets[2].received) = 1
    /\ sockets[2].received[1].status.streaming
    /\ sockets[2].received[1].status.rms = 50
    /\ ~state.is_streaming
    /\ state.current_rms = 0
    /\ Len(state.connection_history)
         > Len(sockets[2].received[1].status.connection_history)

\* A stop is inside its wait, a start is inside its enumeration, or a read
\* of the encoder's output is under way.
InProgress ==
    \/ event_loop.running \in {"wait", "pactl"}
    \/ "stdout.read" \in event_loop.to_thread

\* C28: while a stop, a start or a read of the encoder's output is in
\* progress, the broadcaster can start its next tick (if it has one left)
\* and the meter task, when it is at the top of its loop, can take its
\* step.
C28_PeriodicTasksNotStalled ==
    InProgress
        => /\ (broadcast.pc = "sleep" /\ broadcast.tick < MaxTicks)
                => ENABLED periodic_update
           /\ monitor.pc = "loop" => ENABLED audio_monitor_loop

\* The part of C28 about the reads of the encoder's output: they run in a
\* worker thread and the periodic tasks go on.
C28_ReadsDoNotStall ==
    ("stdout.read" \in event_loop.to_thread /\ LoopFree)
        => /\ (broadcast.pc = "sleep" /\ broadcast.tick < MaxTicks)
                => ENABLED periodic_update
           /\ monitor.pc = "loop" => ENABLED audio_monitor_loop

\* C29: with the meter task scheduled and no start requested, whenever
\* there is no encoder (it was stopped, or never started) the meter is 0
\* from some time on.
C29_MeterDecays ==
    [](state.ffmpeg_process = NoProcess => <>[](state.current_rms = 0))

\* C29 witness: the encoder was stopped at time 2 after the meter had read
\* -30 dB, and the meter task has put the meter back to 0.
C29_Witness ==
    /\ last_op.name = "audio_monitor_loop"
    /\ state.ffmpeg_process = NoProcess
    /\ Len(state.connection_history) = 2
    /\ state.connection_history[2].details = Msg("Audio stream stopped", "")
    /\ monitor = [pc |-> "loop", line |-> StderrLine("level", -60)]
    /\ state.current_rms = 0

\* C30: while the encoder runs, a line of its stderr that carries a level
\* is read by the meter task: the logging thread, the other reader of the
\* pipe, never takes such a line.
C30_MeterSeesEveryLevelLine ==
    last_op.name = "log_ffmpeg_stderr" => last_op.ret.status # "level"

\* C31: a pass of the Bluetooth monitor writes state.bt_connected and
\* nothing else: the encoder process, its handle, is_streaming,
\* stream_start_time, current_audio_source, the two logs and every other
\* field stay as they were, also when a device appears.
C31_MonitorWritesOnlyPeerName ==
    [][(now' = now + 1 /\ last_op'.name = "bluetooth_monitor_loop")
        => /\ state' = [state EXCEPT !.bt_connected = state'.bt_connected]
           /\ os' = os
           /\ tasks' = tasks]_vars

\* C31 witness: the first pass of the monitor, made while the encoder
\* streams, has found a device where there was none.
C31_Witness ==
    /\ last_op.name = "bluetooth_monitor_loop"
    /\ now = 3
    /\ state.bt_connected = "Phone"
    /\ state.is_streaming
    /\ state.ffmpeg_process \in os.alive

\* The commands answered by the last pass of the Bluetooth monitor.
LastQuery == last_op.calls[1].query

\* A command that get_connected_bluetooth_device got to could not be run.
QueryFailed(q) ==
    \/ q.raises = "bluetoothctl"
    \/ /\ ~(q.connected /\ q.name.text # None)
       /\ \/ q.raises = "pactl_short"
          \/ q.bluez_listed /\ q.raises = "pactl_list"

\* C32: the name written by a pass is None after a failed query; else the
\* name bluetoothctl reports beside "Connected: yes"; else, with a bluez
\* source listed, the description of the source or "Bluetooth Device" when
\* it has none; else None.
C32_PeerName ==
    last_op.name = "bluetooth_monitor_loop"
        => state.bt_connected =
             IF QueryFailed(LastQuery) THEN None
             ELSE IF LastQuery.connected /\ LastQuery.name.text # None
             THEN LastQuery.name.text
             ELSE IF ~LastQuery.bluez_listed THEN None
             ELSE IF LastQuery.description \in {None, ""}
             THEN "Bluetooth Device"
             ELSE LastQuery.description

\* C32 witness: bluetoothctl reports a name but not "Connected: yes", a
\* bluez source is listed without a description, and the pass has written
\* the placeholder.
C32_Witness ==
    /\ last_op.name = "bluetooth_monitor_loop"
    /\ ~LastQuery.connected
    /\ LastQuery.name.text = "Phone"
    /\ LastQuery.bluez_listed
    /\ LastQuery.description = ""
    /\ state.bt_connected = "Bluetooth Device"

\* C33: a pass of the Bluetooth monitor whose query failed appends the
\* failure to error_log, with a category, and sets last_error to its
\* message.
C33_ToolFailureRecorded ==
    [][(/\ now' = now + 1
        /\ last_op'.name = "bluetooth_monitor_loop"
        /\ last_op'.calls[1].branch = "raised")
        => /\ Len(state'.error_log) > 0
           /\ state'.error_log # state.error_log
           /\ state'.error_log[Len(state'.error_log)].type # ""
           /\ state'.last_error =
                 state'.error_log[Len(state'.error_log)].message]_vars

\* C34: a consumer whose encoder has been stopped, or has exited, sees the
\* end of the stream next (an empty read or no handle) and ends: it does
\* not go on to read the output of another encoder.
C34_ConsumerEndsWithEncoder ==
    [][(consumer.pc = "yield" /\ consumer.stdout \notin os.alive
            /\ consumer'.pc = "read")
        => consumer'.stdout = consumer.stdout]_vars

\* C35: the reconnect handler answers "success" only when the encoder is
\* running afterwards: a reconnect whose launch failed, or that found no
\* source, is not answered with "success".
C35_SuccessOnlyWhenRunning ==
    [][(reconnect = "sleep" /\ reconnect' = "idle"
            /\ last_op'.ret.status = "success")
        => (state'.is_streaming /\ state'.ffmpeg_process \in os'.alive)]_vars

\* The key paths of a configuration value: every sequence of keys that
\* leads from it to a value.
RECURSIVE KeyPaths(_)
KeyPaths(value) ==
    UNION {{<<key>>} \cup {<<key>> \o path : path \in KeyPaths(value.items[key])} :
             key \in DOMAIN value.items}

\* C36: the result of _merge_configs(base, updates) has every key path of
\* base and every key path of updates.
C36_MergeKeepsKeyPaths ==
    isinstance_dict(config.merged)
        => (KeyPaths(config.base) \cup KeyPaths(config.updates))
               \subseteq KeyPaths(config.merged)

====
